---------------------------- MODULE Spec2Model ----------------------------
(***************************************************************************)
(* Model of BudjetPilot's budget engine (services/budgetCalculator.ts,     *)
(* shipped in src/hooks/useBudget.ts after the useBudget hook) and of the  *)
(* pay-date derivation of services/database.ts.                            *)
(*                                                                         *)
(* Numbers.  The program computes on IEEE doubles.  The model computes on  *)
(* exact rationals: every input amount is a whole number of cents, every   *)
(* percentage a whole number, and every monthly figure is then a whole     *)
(* number of units of 1/UnitsPerCent cent (52/12, 26/12, the reliability   *)
(* multipliers and value/100 all have denominators dividing 1200).  A      *)
(* result field rounded by Math.round(x * 100) / 100 is a whole number of  *)
(* cents.  Floating-point representation error is not modelled.            *)
(*                                                                         *)
(* Dates.  A Date normalised by setHours(0,0,0,0) is the number of days    *)
(* since 1 January of BaseYear (local time); months are 0..11 as in JS.    *)
(* The time between two local midnights is a whole number of days but for  *)
(* the hour by which the device's time zone changes its clocks (getTime).  *)
(***************************************************************************)
EXTENDS Integers, Sequences, FiniteSets, TLC

VARIABLES
    input,       \* SpecCalc: the arguments of one calculateBudget call
    result,      \* SpecCalc: what calculateBudget returned for input
    capsInput,   \* SpecCalc: input with other flexible caps (second run)
    capsResult,  \* SpecCalc: what calculateBudget returned for capsInput
    payIncome,   \* SpecPayDate: the IncomeData given to getNextPayDateFromIncome
    payToday,    \* SpecPayDate: new Date() at the call, at midnight
    payResult,   \* SpecPayDate: the Date returned
    today,       \* SpecDashboard: the current day
    incomeRow,   \* SpecDashboard: the income table (at most one row)
    budget,      \* SpecDashboard: useBudget's budget state
    budgetDay,   \* SpecDashboard: the day on which budget was calculated
    callInput,   \* SpecSession: the arguments of the first calculateBudget call
    callResult,  \* SpecSession: what the first call returned
    otherInput,  \* SpecSession: the arguments of the latest call in between
    otherResult, \* SpecSession: what the latest call in between returned
    againResult, \* SpecSession: what the repeated first call returned
    dbTables,    \* SpecStore: the rows of the income and fixed_expenses tables
    dbSaves,     \* SpecStore: the save calls and how far each has run
    dbRead,      \* SpecStore: the latest getter call and what it returned
    savScreen,   \* SpecSavings: the state of the SavingsScreen component
    savRow,      \* SpecSavings: the savings table (at most one row)
    hookStore,   \* SpecHook: the fixed expenses stored
    hookLoads,   \* SpecHook: the loadBudget calls, in the order they start
    hook,        \* SpecHook: useBudget's state (budget, loading, error)
    onbRow,      \* SpecLaunch: the onboarding_status table (at most one row)
    navRoute,    \* SpecLaunch: the route the router shows
    launchCheck, \* SpecLaunch: where Index.checkOnboarding is in this launch
    navHandler,  \* SpecLaunch: the handler waiting to call router.replace
    launches,    \* SpecLaunch: the launches of the app so far
    db,          \* SpecInitDb: the module variable db of database.ts
    dbOpens,     \* SpecInitDb: the calls of SQLite.openDatabaseAsync so far
    dbCallers    \* SpecInitDb: the callers of initDatabase

calcVars == <<input, result, capsInput, capsResult>>
payVars  == <<payIncome, payToday, payResult>>
dashVars == <<today, incomeRow, budget, budgetDay>>
sessVars == <<callInput, callResult, otherInput, otherResult, againResult>>
storeVars == <<dbTables, dbSaves, dbRead>>
earlierVars == <<calcVars, payVars, dashVars, sessVars>>
savVars == <<savScreen, savRow>>
hookVars == <<hookStore, hookLoads, hook>>
launchVars == <<onbRow, navRoute, launchCheck, navHandler, launches>>
initDbVars == <<db, dbOpens, dbCallers>>
laterVars == <<storeVars, savVars, hookVars, launchVars, initDbVars>>
vars     == <<input, result, capsInput, capsResult, payIncome, payToday,
              payResult, today, incomeRow, budget, budgetDay, callInput,
              callResult, otherInput, otherResult, againResult,
              dbTables, dbSaves, dbRead, savScreen, savRow,
              hookStore, hookLoads, hook,
              onbRow, navRoute, launchCheck, navHandler, launches,
              db, dbOpens, dbCallers>>

-----------------------------------------------------------------------------
(* Optional values (undefined / null in the program).                      *)
None == <<>>
Some(v) == <<v>>
IsNone(o) == o = <<>>
Get(o) == o[1]

Max(a, b) == IF a >= b THEN a ELSE b
Min(a, b) == IF a <= b THEN a ELSE b

-----------------------------------------------------------------------------
(* Exact arithmetic.                                                       *)

\* Units per cent: monthly figures are whole multiples of 1/1200 cent.
UnitsPerCent == 12 * 100

\* Math.round(x * 100) / 100 for x given in units; the result in cents.
\* Math.round rounds halves towards +Infinity: floor(x + 1/2).
Round2(u) == (2 * (u % UnitsPerCent) + UnitsPerCent) \div (2 * UnitsPerCent)
             + (u \div UnitsPerCent)

\* Number.prototype.toFixed(2) for x given in units; the result in cents.
\* toFixed rounds halves away from zero.
ToFixed2(u) == IF u >= 0 THEN Round2(u) ELSE 0 - Round2(0 - u)

\* const daysInMonth = 30.44, in hundredths of a day.
DaysInMonthX100 == 3044

\* Units of surplus per cent of daily budget: dailyBudget (in cents) is
\* surplusMonthly (in units) / DailyDivisor.
DailyDivisor == (UnitsPerCent * DaysInMonthX100) \div 100

\* The daily budget rounded to the cent first and then multiplied by the days.
RoundDailyThenTimes(surplus, days) ==
    LET q == surplus \div DailyDivisor
        r == surplus % DailyDivisor
    IN  (q + ((2 * r + DailyDivisor) \div (2 * DailyDivisor))) * days

\* Math.round(surplus / 30.44 * days * 100) / 100, exactly, in cents:
\* floor(surplus * days / DailyDivisor + 1/2) without forming surplus * days.
RoundDailyTimes(surplus, days) ==
    LET q == surplus \div DailyDivisor
        r == surplus % DailyDivisor
    IN  q * days + ((2 * r * days + DailyDivisor) \div (2 * DailyDivisor))

-----------------------------------------------------------------------------
(* services/budgetCalculator.ts                                            *)

\* The reliability lookup table, in quarters: low 0.5, medium 0.75, high 1.0;
\* a key that is not in the table yields undefined, and `|| 0.75` applies.
reliabilityMultiplierX4(irregularReliability) ==
    CASE irregularReliability = "low"    -> 2
      [] irregularReliability = "medium" -> 3
      [] irregularReliability = "high"   -> 4
      [] OTHER                           -> 3

\* The base income of a pay frequency counted as 4 weeks (2 fortnights) a
\* month instead of 52/12 (26/12).
baseMonthlyFourWeeks(payFrequency, netPayAmount) ==
    CASE payFrequency = "weekly"   -> netPayAmount * 4 * UnitsPerCent
      [] payFrequency = "biweekly" -> netPayAmount * 2 * UnitsPerCent
      [] OTHER                     -> netPayAmount * UnitsPerCent

\* normalizeIncomeToMonthly, lines 100-109: the base income of a known pay
\* frequency, amount in cents, result in units.
baseMonthly(payFrequency, netPayAmount) ==
    CASE payFrequency = "weekly"   -> netPayAmount * 52 * (UnitsPerCent \div 12)
      [] payFrequency = "biweekly" -> netPayAmount * 26 * (UnitsPerCent \div 12)
      [] OTHER                     -> netPayAmount * UnitsPerCent

\* normalizeIncomeToMonthly: amounts in cents.  It throws on a frequency that
\* is none of the three; otherwise value is the monthly income in units.
normalizeIncomeToMonthly(payFrequency, netPayAmount, irregularMonthlyAvg, irregularReliability) ==
    IF payFrequency \notin {"weekly", "biweekly", "monthly"}
    THEN [threw |-> TRUE, value |-> 0]
    ELSE [threw |-> FALSE,
          value |-> baseMonthly(payFrequency, netPayAmount)
                    + irregularMonthlyAvg
                      * reliabilityMultiplierX4(irregularReliability)
                      * (UnitsPerCent \div 4)]

\* calculateBudget, lines 200-211: the arguments of normalizeIncomeToMonthly
\* taken from the income profile.  `enabled && avg ? avg : 0` drops an absent
\* or zero average; `reliability || "medium"` replaces an absent tier.
incomeMonthlyOf(income) ==
    LET irregularAvg ==
            IF /\ income.irregularIncomeEnabled
               /\ ~IsNone(income.irregularMonthlyAvg)
               /\ Get(income.irregularMonthlyAvg) # 0
            THEN Get(income.irregularMonthlyAvg) ELSE 0
        irregularReliability ==
            IF IsNone(income.irregularReliability) THEN "medium"
            ELSE Get(income.irregularReliability)
    IN  normalizeIncomeToMonthly(income.payFrequency, income.netPayAmount,
                                 irregularAvg, irregularReliability)

\* reduce((sum, x) => sum + f(x), 0) over a list.
RECURSIVE SumSeq(_, _)
SumSeq(s, i) == IF i > Len(s) THEN 0 ELSE s[i] + SumSeq(s, i + 1)

\* The sum of amountMonthly over every fixed expense, disabled ones included.
fixedMonthlyOfAll(fixedExpenses) ==
    LET list == IF IsNone(fixedExpenses) THEN <<>> ELSE Get(fixedExpenses)
    IN  UnitsPerCent *
        SumSeq([i \in 1..Len(list) |-> list[i].amountMonthly], 1)

\* (fixedExpenses || []).filter(enabled).reduce(sum of amountMonthly), units.
fixedMonthlyOf(fixedExpenses) ==
    LET list == IF IsNone(fixedExpenses) THEN <<>> ELSE Get(fixedExpenses)
    IN  UnitsPerCent *
        SumSeq([i \in 1..Len(list) |->
                  IF list[i].enabled THEN list[i].amountMonthly ELSE 0], 1)

\* (subscriptions || []).reduce(sum of amountMonthly), units.
subsMonthlyOf(subscriptions) ==
    LET list == IF IsNone(subscriptions) THEN <<>> ELSE Get(subscriptions)
    IN  UnitsPerCent *
        SumSeq([i \in 1..Len(list) |-> list[i].amountMonthly], 1)

\* The sum of the four caps, 0 when flexibleSpending is absent; units.
flexibleCapsMonthlyOf(flexibleSpending) ==
    IF IsNone(flexibleSpending) THEN 0
    ELSE LET f == Get(flexibleSpending)
         IN  UnitsPerCent *
             (f.eatingOut + f.entertainment + f.shopping + f.miscBuffer)

\* savingsMonthly: value in cents (fixedAmount) or in percent; units.
savingsMonthlyOf(savings, incomeMonthly) ==
    IF /\ ~IsNone(savings)
       /\ Get(savings).enabled
       /\ ~IsNone(Get(savings).savingsValue)
       /\ Get(Get(savings).savingsValue) # 0
    THEN LET s == Get(savings)
             v == Get(s.savingsValue)
         IN  CASE s.savingsMode = Some("fixedAmount") -> v * UnitsPerCent
               [] s.savingsMode = Some("percent") -> (incomeMonthly \div 100) * v
               [] OTHER -> 0
    ELSE 0

\* calculateDebtPaymentForGoal (defined in the source, called by nothing);
\* exact for the balances and month counts used here.
calculateDebtPaymentForGoal(balance, months) ==
    IF months <= 0 THEN balance ELSE balance \div months

\* getPayoffMonths (defined in the source, called by nothing); None for null.
\* goalDate is the day of the custom date.
getPayoffMonths(goal, goalDate, now) ==
    CASE goal = Some("ASAP") -> Some(1)
      [] goal = Some("6mo")  -> Some(6)
      [] goal = Some("12mo") -> Some(12)
      [] goal = Some("24mo") -> Some(24)
      [] goal = Some("customDate") /\ ~IsNone(goalDate) ->
           Some(Max(1, ((Get(goalDate) - now) * 100) \div DaysInMonthX100))
      [] OTHER -> None

\* A bug that treats a debt list as empty.
calculateDebtRequiredMonthlyZero(debts, now) == 0

\* calculateDebtRequiredMonthly: the sum of the minimum payments; the payoff
\* goal is not read.  Units.
calculateDebtRequiredMonthly(debts, now) ==
    IF Len(debts) = 0 THEN 0
    ELSE UnitsPerCent *
         SumSeq([i \in 1..Len(debts) |-> debts[i].minPaymentMonthly], 1)

\* Date.getTime() of the local midnight of a day, in hours since the midnight
\* of day 0.  zone is the clock change of the device's time zone within the
\* days at hand: None, or the day on which the clocks are put back (hours = 1:
\* that day lasts 25 hours) or forward (hours = -1: it lasts 23 hours).
getTime(day, zone) ==
    24 * day
    + (IF ~IsNone(zone) /\ day > Get(zone).day THEN Get(zone).hours ELSE 0)

\* Math.ceil(a / b) for b > 0.
Ceil(a, b) == 0 - ((0 - a) \div b)

\* calculateBudget, lines 186-197: the time from today's midnight to the pay
\* date's midnight divided by 24 hours, rounded up, at least 1.
daysUntilPaydayOf(nextPayDate, now, zone) ==
    Max(1, Ceil(getTime(nextPayDate, zone) - getTime(now, zone), 24))

\* Essential sum without the savings.
essentialMonthlyNoSavings(fixedMonthly, subsMonthly, flexibleCapsMonthly, savingsMonthly, debtRequiredMonthly) ==
    fixedMonthly + subsMonthly + debtRequiredMonthly

\* Essential sum with the flexible caps counted in.
essentialMonthlyWithCaps(fixedMonthly, subsMonthly, flexibleCapsMonthly, savingsMonthly, debtRequiredMonthly) ==
    fixedMonthly + subsMonthly + flexibleCapsMonthly + savingsMonthly
    + debtRequiredMonthly

\* calculateBudget, lines 241-242.  flexibleCapsMonthly is in scope there and
\* is not part of the sum.
essentialMonthlyOf(fixedMonthly, subsMonthly, flexibleCapsMonthly, savingsMonthly, debtRequiredMonthly) ==
    fixedMonthly + subsMonthly + savingsMonthly + debtRequiredMonthly

\* Feasibility decided on the rounded figures.
feasibleOfRounded(essentialMonthly, incomeMonthly) ==
    Round2(essentialMonthly) <= Round2(incomeMonthly)

\* calculateBudget, line 245.
feasibleOf(essentialMonthly, incomeMonthly) ==
    essentialMonthly <= incomeMonthly

\* Safe-to-spend by the formula of INTEGRATION_SUMMARY.md with the default
\* balance of 0: balance_now - essential_monthly * days / 30.44, and that
\* amount / days.
safeToSpendFromBalance(feasible, incomeMonthly, essentialMonthly, daysUntilPayday) ==
    LET untilPayday == 0 - RoundDailyTimes(essentialMonthly, daysUntilPayday)
    IN  [untilPayday |-> untilPayday,
         perDay      |-> untilPayday \div daysUntilPayday]

\* Safe-to-spend without the feasibility gate.
safeToSpendUngated(feasible, incomeMonthly, essentialMonthly, daysUntilPayday) ==
    LET surplusMonthly == incomeMonthly - essentialMonthly
    IN  [untilPayday |-> RoundDailyTimes(surplusMonthly, daysUntilPayday),
         perDay      |-> RoundDailyTimes(surplusMonthly, 1)]

\* Safe-to-spend from the rounded monthly figures and a 30-day month.
safeToSpendFromRounded(feasible, incomeMonthly, essentialMonthly, daysUntilPayday) ==
    LET surplusCents == Round2(incomeMonthly) - Round2(essentialMonthly)
    IN  IF feasible /\ surplusCents > 0
        THEN [untilPayday |-> (2 * surplusCents * daysUntilPayday + 30) \div 60,
              perDay      |-> (2 * surplusCents + 30) \div 60]
        ELSE [untilPayday |-> 0, perDay |-> 0]

\* The figures computed from the shortfall of an infeasible plan.
safeToSpendFromShortfall(feasible, incomeMonthly, essentialMonthly, daysUntilPayday) ==
    LET shortfallMonthly == essentialMonthly - incomeMonthly
    IN  IF ~feasible /\ shortfallMonthly > 0
        THEN [untilPayday |->
                Round2(UnitsPerCent *
                       Max(0, RoundDailyTimes(shortfallMonthly, daysUntilPayday))),
              perDay |-> RoundDailyTimes(shortfallMonthly, 1)]
        ELSE [untilPayday |-> Round2(0), perDay |-> 0]

\* calculateBudget, lines 258-280 and 293-294: both figures in cents.  Line
\* 293 rounds safeToSpendUntilPayday a second time, which leaves a whole
\* number of cents as it is.
safeToSpendOf(feasible, incomeMonthly, essentialMonthly, daysUntilPayday) ==
    LET surplusMonthly == incomeMonthly - essentialMonthly
    IN  IF feasible /\ surplusMonthly > 0
        THEN [untilPayday |->
                Round2(UnitsPerCent *
                       Max(0, RoundDailyTimes(surplusMonthly, daysUntilPayday))),
              perDay |-> RoundDailyTimes(surplusMonthly, 1)]
        ELSE [untilPayday |-> Round2(0), perDay |-> 0]

\* The warning with the surplus (income minus essentials) as its figure.
warningsOfSurplus(feasible, essentialMonthly, incomeMonthly) ==
    IF feasible THEN <<>>
    ELSE << [kind |-> "shortfall",
             shortfall |-> ToFixed2(incomeMonthly - essentialMonthly),
             essential |-> ToFixed2(essentialMonthly),
             income    |-> ToFixed2(incomeMonthly)] >>

\* calculateBudget, lines 246-254: the warnings pushed (the shortfall warning
\* is the only one the function has); the figures are what toFixed(2)
\* prints, in cents.
warningsOf(feasible, essentialMonthly, incomeMonthly) ==
    IF feasible THEN <<>>
    ELSE << [kind |-> "shortfall",
             shortfall |-> ToFixed2(essentialMonthly - incomeMonthly),
             essential |-> ToFixed2(essentialMonthly),
             income    |-> ToFixed2(incomeMonthly)] >>

\* calculateBudget.  The income passed by loadBudget comes from the income
\* table, whose next_pay_date is never empty (saveIncomeData, line 255), so
\* nextPayDate is a date here.  income, fixedExpenses, subscriptions, flexibleSpending,
\* savings and debts are optional (None: undefined or null); now is
\* `new Date()` at midnight and zone the clock change of the time zone (see
\* getTime).  kind "null": no income; "error": the promise
\* rejected; "ok": a BudgetCalculation, monetary fields in cents.
calculateBudget(income, fixedExpenses, subscriptions, flexibleSpending, savings, debts, balanceNow, now, zone) ==
    IF IsNone(income) THEN [kind |-> "null"]
    ELSE
    LET inc == Get(income)
        nextPayDate == Get(inc.nextPayDate)
        daysUntilPayday == daysUntilPaydayOf(nextPayDate, now, zone)
        normalized == incomeMonthlyOf(inc)
        incomeMonthly == normalized.value
        fixedMonthly == fixedMonthlyOf(fixedExpenses)
        subsMonthly == subsMonthlyOf(subscriptions)
        flexibleCapsMonthly == flexibleCapsMonthlyOf(flexibleSpending)
        savingsMonthly == savingsMonthlyOf(savings, incomeMonthly)
        debtRequiredMonthly ==
            calculateDebtRequiredMonthly(
                IF IsNone(debts) THEN <<>> ELSE Get(debts), now)
        essentialMonthly ==
            essentialMonthlyOf(fixedMonthly, subsMonthly, flexibleCapsMonthly,
                               savingsMonthly, debtRequiredMonthly)
        feasible == feasibleOf(essentialMonthly, incomeMonthly)
        safe == safeToSpendOf(feasible, incomeMonthly, essentialMonthly,
                              daysUntilPayday)
    IN  IF normalized.threw THEN [kind |-> "error"]
        ELSE [kind |-> "ok",
              feasible |-> feasible,
              incomeMonthly |-> Round2(incomeMonthly),
              totals |-> [fixedMonthly |-> Round2(fixedMonthly),
                          subsMonthly |-> Round2(subsMonthly),
                          flexibleCapsMonthly |-> Round2(flexibleCapsMonthly),
                          savingsMonthly |-> Round2(savingsMonthly),
                          debtRequiredMonthly |-> Round2(debtRequiredMonthly),
                          essentialMonthly |-> Round2(essentialMonthly)],
              safeToSpendUntilPayday |-> safe.untilPayday,
              safeToSpendToday |-> safe.perDay,
              daysUntilPayday |-> daysUntilPayday,
              nextPayDate |-> nextPayDate,
              warnings |-> warningsOf(feasible, essentialMonthly, incomeMonthly)]

-----------------------------------------------------------------------------
(* The calendar behind JavaScript's Date, in local time and whole days.    *)

BaseYear == 2000 + 27
Years == BaseYear .. (BaseYear + 3)

IsLeapYear(y) == (y % 4 = 0 /\ y % 100 # 0) \/ y % 400 = 0

\* The length of month m (0..11) of year y.
DaysInMonth(y, m) ==
    CASE m \in {0, 2, 4, 6, 7, 9, 11} -> 31
      [] m \in {3, 5, 8, 10}          -> 30
      [] m = 1                        -> IF IsLeapYear(y) THEN 29 ELSE 28

RECURSIVE DaysBeforeMonth(_, _)
DaysBeforeMonth(y, m) ==
    IF m = 0 THEN 0 ELSE DaysBeforeMonth(y, m - 1) + DaysInMonth(y, m - 1)

RECURSIVE DaysBeforeYear(_)
DaysBeforeYear(y) ==
    IF y <= BaseYear THEN 0
    ELSE DaysBeforeYear(y - 1) + DaysBeforeMonth(y - 1, 12)

\* The day number of the first day of each month of the calendar.
MonthStart ==
    [y \in Years |-> [m \in 0..11 |-> DaysBeforeYear(y) + DaysBeforeMonth(y, m)]]

\* new Date(year, month, day) at midnight, as a day number.  A month of 12 is
\* January of the next year; a day of 0 is the last day of the month before,
\* and a day past the end of the month runs into the next month.
NewDate(year, month, day) ==
    MonthStart[year + (month \div 12)][month % 12] + day - 1

CalendarDays == 0 .. (DaysBeforeYear(BaseYear + 3) - 1)

\* getFullYear(), getMonth() and getDate() of every day of the calendar.
Calendar ==
    [t \in CalendarDays |->
        LET y == CHOOSE yy \in Years :
                    MonthStart[yy][0] <= t /\ t < MonthStart[yy][0] + DaysBeforeMonth(yy, 12)
            m == CHOOSE mm \in 0..11 :
                    MonthStart[y][mm] <= t /\ t < MonthStart[y][mm] + DaysInMonth(y, mm)
        IN  [year |-> y, month |-> m, date |-> t - MonthStart[y][m] + 1]]

getFullYear(t) == Calendar[t].year
getMonth(t) == Calendar[t].month
getDate(t) == Calendar[t].date

-----------------------------------------------------------------------------
(* services/database.ts: the next pay date                                 *)

\* getLastDayOfMonth.
getLastDayOfMonth(d) == getDate(NewDate(getFullYear(d), getMonth(d) + 1, 0))

\* A clamp that lets the day through.
clampToMonthNoClamp(year, month, day) == day

\* clampToMonth.
clampToMonth(year, month, day) ==
    LET last == getDate(NewDate(year, month + 1, 0))
    IN  Min(day, last)

\* The stored date returned even when it has passed.
fallbackPayDateStored(income, now) ==
    IF ~IsNone(income.nextPayDate) THEN Get(income.nextPayDate) ELSE now

\* getNextPayDateFromIncome, lines 85-93: without a rule, the stored
\* nextPayDate when there is one (the string is not empty) and it is today
\* or later, otherwise today.  The inner `if` repeats the condition of the
\* monthly branch, which has returned already.
fallbackPayDate(income, now) ==
    IF ~IsNone(income.nextPayDate) /\ Get(income.nextPayDate) >= now
    THEN Get(income.nextPayDate)
    ELSE now

\* getNextPayDateFromIncome; now is `new Date()` at midnight.  An empty
\* nextPayDate string is None.  The recursive call at line 90 is guarded by
\* the condition of line 47, which has returned before; it is never made.
getNextPayDateFromIncome(income, now) ==
    LET y == getFullYear(now)
        m == getMonth(now)
    IN  IF income.payFrequency = "monthly" /\ ~IsNone(income.payDayOfMonth)
        THEN LET p == Get(income.payDayOfMonth)
                 thisMonth == NewDate(y, m, clampToMonth(y, m, p))
             IN  IF thisMonth >= now THEN thisMonth
                 ELSE NewDate(y, m + 1, clampToMonth(y, m + 1, p))
        ELSE IF /\ income.payFrequency = "biweekly"
                /\ ~IsNone(income.biweeklyPayDay1)
                /\ ~IsNone(income.biweeklyPayDay2)
        THEN LET d1 == Get(income.biweeklyPayDay1)
                 d2 == Get(income.biweeklyPayDay2)
                 c1 == NewDate(y, m, clampToMonth(y, m, d1))
                 c2 == NewDate(y, m, clampToMonth(y, m, d2))
                 n1 == NewDate(y, m + 1, clampToMonth(y, m + 1, d1))
                 n2 == NewDate(y, m + 1, clampToMonth(y, m + 1, d2))
             IN  IF Min(c1, c2) >= now THEN Min(c1, c2)
                 ELSE IF Max(c1, c2) >= now THEN Max(c1, c2)
                 ELSE Min(n1, n2)
        ELSE fallbackPayDate(income, now)

-----------------------------------------------------------------------------
(* SpecCalc: one call of calculateBudget on arguments drawn from bounded   *)
(* sets, and a second call that differs in the flexible caps only; the     *)
(* time zone does not change its clocks before the pay date.               *)

MaxFixed == 2     \* longest list of fixed expenses
MaxSubs == 1      \* longest list of subscriptions
MaxDebts == 2     \* longest list of debts
MaxDays == 15     \* furthest pay date, in days after the call

SeqsUpTo(S, n) == UNION {[1..k -> S] : k \in 0..n}

\* Amounts are in cents.
NetPayAmounts == {0 - 5000, 0, 100006, 100000}
PayFrequencies == {"weekly", "biweekly", "monthly"}
IrregularChoices ==
    {[enabled |-> FALSE, avg |-> None, reliability |-> None],
     [enabled |-> FALSE, avg |-> Some(40001), reliability |-> Some("high")],
     [enabled |-> TRUE, avg |-> None, reliability |-> Some("low")]}
    \cup {[enabled |-> TRUE, avg |-> Some(40001), reliability |-> r] :
            r \in {None, Some("low"), Some("medium"), Some("high")}}
PayDateOffsets == {0 - 1, 0, MaxDays}

IncomeChoices ==
    {[payFrequency |-> f, netPayAmount |-> a, nextPayDate |-> Some(d),
      payDayOfMonth |-> None, biweeklyPayDay1 |-> None,
      biweeklyPayDay2 |-> None,
      irregularIncomeEnabled |-> i.enabled,
      irregularMonthlyAvg |-> i.avg,
      irregularReliability |-> i.reliability] :
        f \in PayFrequencies, a \in NetPayAmounts, d \in PayDateOffsets,
        i \in IrregularChoices}

FixedChoices ==
    {[name |-> "Rent", amountMonthly |-> 216680, enabled |-> TRUE],
     [name |-> "Gym", amountMonthly |-> 5000, enabled |-> FALSE]}
SubscriptionChoices == {[name |-> "Music", amountMonthly |-> 999]}
CapsChoices ==
    {None,
     Some([eatingOut |-> 20000, entertainment |-> 10000, shopping |-> 0,
           miscBuffer |-> 0]),
     Some([eatingOut |-> 0, entertainment |-> 0, shopping |-> 0,
           miscBuffer |-> 300000])}
SavingsChoices ==
    {None,
     Some([enabled |-> FALSE, savingsMode |-> Some("percent"),
           savingsValue |-> Some(10)]),
     Some([enabled |-> TRUE, savingsMode |-> Some("fixedAmount"),
           savingsValue |-> Some(30000)]),
     Some([enabled |-> TRUE, savingsMode |-> Some("percent"),
           savingsValue |-> Some(10)]),
     Some([enabled |-> TRUE, savingsMode |-> Some("percent"),
           savingsValue |-> None])}
DebtChoices ==
    {[debtType |-> "Credit Card", balance |-> 240000,
      minPaymentMonthly |-> 2500, payoffGoal |-> Some("12mo"),
      customPayoffDate |-> None],
     [debtType |-> "Other", balance |-> 1000, minPaymentMonthly |-> 0,
      payoffGoal |-> None, customPayoffDate |-> None]}

Pending == [kind |-> "pending"]

\* calculateBudget with a missing income profile read as an income of zero.
RunZeroIncome(in) ==
    calculateBudget(IF IsNone(in.income)
                    THEN Some([payFrequency |-> "monthly", netPayAmount |-> 0,
                               nextPayDate |-> Some(in.now),
                               payDayOfMonth |-> None,
                               biweeklyPayDay1 |-> None,
                               biweeklyPayDay2 |-> None,
                               irregularIncomeEnabled |-> FALSE,
                               irregularMonthlyAvg |-> None,
                               irregularReliability |-> None])
                    ELSE in.income,
                    in.fixedExpenses, in.subscriptions, in.flexibleSpending,
                    in.savings, in.debts, in.balanceNow, in.now, in.zone)

\* calculateBudget applied to an argument record.
Run(in) ==
    calculateBudget(in.income, in.fixedExpenses, in.subscriptions,
                    in.flexibleSpending, in.savings, in.debts,
                    in.balanceNow, in.now, in.zone)

CalcIdle ==
    input = None /\ result = Pending /\ capsInput = None /\ capsResult = Pending
PayIdle == payIncome = None /\ payToday = 0 /\ payResult = None
DashIdle == today = 0 /\ incomeRow = None /\ budget = Pending /\ budgetDay = 0
SessIdle ==
    /\ callInput = None /\ callResult = Pending
    /\ otherInput = None /\ otherResult = Pending /\ againResult = Pending
StoreIdle == dbTables = None /\ dbSaves = None /\ dbRead = None
EarlierIdle == CalcIdle /\ PayIdle /\ DashIdle /\ SessIdle
SavIdle == savScreen = None /\ savRow = None
HookIdle == hookStore = None /\ hookLoads = None /\ hook = None
LaunchIdle ==
    /\ onbRow = None /\ navRoute = None /\ launchCheck = None
    /\ navHandler = None /\ launches = 0
InitDbIdle == db = None /\ dbOpens = 0 /\ dbCallers = None
LaterIdle == StoreIdle /\ SavIdle /\ HookIdle /\ LaunchIdle /\ InitDbIdle

InitCalc ==
    /\ input \in
         [income : {None} \cup {Some(i) : i \in IncomeChoices},
          fixedExpenses : {Some(l) : l \in SeqsUpTo(FixedChoices, MaxFixed)},
          subscriptions : {Some(l) : l \in SeqsUpTo(SubscriptionChoices, MaxSubs)},
          flexibleSpending : {Some([eatingOut |-> 20000,
                                    entertainment |-> 10000,
                                    shopping |-> 0, miscBuffer |-> 0])},
          savings : SavingsChoices,
          debts : {Some(l) : l \in SeqsUpTo(DebtChoices, MaxDebts)},
          balanceNow : {0},
          now : {0},
          zone : {None}]
    /\ result = Pending
    /\ capsInput = input
    /\ capsResult = Pending
    /\ PayIdle /\ DashIdle /\ SessIdle /\ LaterIdle

\* await calculateBudget(...) on the arguments.
Calculate ==
    /\ result = Pending
    /\ result' = Run(input)
    /\ UNCHANGED <<input, capsInput, capsResult>>
    /\ UNCHANGED payVars /\ UNCHANGED dashVars /\ UNCHANGED sessVars
    /\ UNCHANGED laterVars

\* A second call on the same day whose arguments differ in the caps only.
CalculateOtherCaps ==
    /\ result # Pending
    /\ capsResult = Pending
    /\ \E caps \in CapsChoices \ {input.flexibleSpending} :
         /\ capsInput' = [input EXCEPT !.flexibleSpending = caps]
         /\ capsResult' = Run(capsInput')
    /\ UNCHANGED <<input, result>>
    /\ UNCHANGED payVars /\ UNCHANGED dashVars /\ UNCHANGED sessVars
    /\ UNCHANGED laterVars

NextCalc == Calculate \/ CalculateOtherCaps

SpecCalc == InitCalc /\ [][NextCalc]_vars

-----------------------------------------------------------------------------
(* The claims about one calculateBudget call, checked under SpecCalc.      *)

\* The unrounded figures of the call (the locals of calculateBudget).
InIncomeMonthly == incomeMonthlyOf(Get(input.income)).value
InSavingsMonthly == savingsMonthlyOf(input.savings, InIncomeMonthly)
InDebts == IF IsNone(input.debts) THEN <<>> ELSE Get(input.debts)
InEssentialMonthly ==
    fixedMonthlyOf(input.fixedExpenses) + subsMonthlyOf(input.subscriptions)
    + InSavingsMonthly + calculateDebtRequiredMonthly(InDebts, input.now)

\* r cents is x units rounded to the cent, halves up: r - 1/2 <= x < r + 1/2.
IsRound2(r, x) ==
    /\ (2 * r - 1) * (UnitsPerCent \div 2) <= x
    /\ x < (2 * r + 1) * (UnitsPerCent \div 2)

\* r cents is (surplus units / 30.44) * days rounded to the cent, halves up.
IsRoundOfDaily(r, surplus, days) ==
    LET q == surplus \div DailyDivisor
        rem == surplus % DailyDivisor
        f == r - q * days
    IN  /\ (2 * f - 1) * DailyDivisor <= 2 * rem * days
        /\ 2 * rem * days < (2 * f + 1) * DailyDivisor

\* The sum of f over a finite set of indices.
RECURSIVE SumOver(_, _)
SumOver(I, f) ==
    IF I = {} THEN 0
    ELSE LET i == CHOOSE j \in I : TRUE IN f[i] + SumOver(I \ {i}, f)

\* C1 as claimed: in every result, feasible equals the comparison of the
\* rounded essentialMonthly and incomeMonthly the result carries.
C1_FeasibleIffRoundedCompare ==
    result.kind = "ok" =>
        (result.feasible <=>
            result.totals.essentialMonthly <= result.incomeMonthly)

\* C1 amended: feasible equals essentialMonthly <= incomeMonthly on the
\* unrounded monthly figures; on the rounded figures of the result only
\* feasible => essentialMonthly <= incomeMonthly holds.
C1_FeasibleIffUnroundedCompare ==
    result.kind = "ok" =>
        /\ result.feasible <=> (InEssentialMonthly <= InIncomeMonthly)
        /\ result.feasible =>
             result.totals.essentialMonthly <= result.incomeMonthly

\* An infeasible result whose rounded figures are equal.
C1_Witness ==
    /\ result.kind = "ok"
    /\ ~result.feasible
    /\ result.totals.essentialMonthly = result.incomeMonthly

\* C2: in every result safeToSpendUntilPayday >= 0 and safeToSpendToday >= 0.
C2_NonNegative ==
    result.kind = "ok" =>
        /\ result.safeToSpendUntilPayday >= 0
        /\ result.safeToSpendToday >= 0

\* A result whose essentials exceed the income, several days before payday.
C2_Witness ==
    /\ result.kind = "ok"
    /\ result.totals.essentialMonthly > result.incomeMonthly
    /\ result.daysUntilPayday > 1

\* C3: an infeasible result has both safe-to-spend figures exactly 0.
C3_InfeasibleZero ==
    (result.kind = "ok" /\ ~result.feasible) =>
        /\ result.safeToSpendUntilPayday = 0
        /\ result.safeToSpendToday = 0

\* An infeasible result, with its shortfall warning.
C3_Witness ==
    /\ result.kind = "ok"
    /\ ~result.feasible
    /\ Len(result.warnings) = 1
    /\ result.warnings[1].shortfall > 0

C7_NormalizedIncome ==
    result.kind = "ok" =>
        LET inc == Get(input.income)
            factor == CASE inc.payFrequency = "weekly" -> 52
                        [] inc.payFrequency = "biweekly" -> 26
                        [] inc.payFrequency = "monthly" -> 12
            avg == IF inc.irregularIncomeEnabled
                      /\ ~IsNone(inc.irregularMonthlyAvg)
                   THEN Get(inc.irregularMonthlyAvg) ELSE 0
            multX4 == CASE inc.irregularReliability = Some("low") -> 2
                        [] inc.irregularReliability = Some("medium") -> 3
                        [] inc.irregularReliability = Some("high") -> 4
                        [] inc.irregularReliability = None -> 3
            \* twelve times the claimed monthly income, in cents
            claimedX12 == inc.netPayAmount * factor + 3 * avg * multX4
        IN  /\ InIncomeMonthly % 100 = 0
            /\ 12 * (InIncomeMonthly \div 100)
                 = claimedX12 * (UnitsPerCent \div 100)
            /\ IsRound2(result.incomeMonthly, InIncomeMonthly)
            /\ (/\ inc.payFrequency = "weekly"
                /\ inc.netPayAmount = 100000
                /\ ~inc.irregularIncomeEnabled)
               => result.incomeMonthly = 433333

\* Weekly 1000 with irregular income present and disabled: 4333.33.
C7_Witness ==
    /\ result.kind = "ok"
    /\ Get(input.income).payFrequency = "weekly"
    /\ Get(input.income).netPayAmount = 100000
    /\ ~Get(input.income).irregularIncomeEnabled
    /\ ~IsNone(Get(input.income).irregularMonthlyAvg)
    /\ result.incomeMonthly = 433333

\* C8: for debts without complete goal/APR data (a Debt has no APR, so every
\* list) debtRequiredMonthly, as counted in the essential sum, is the sum of
\* minPaymentMonthly; it is 0 only when that sum is 0.
C8_DebtIsMinimumPayments ==
    result.kind = "ok" =>
        LET minSum == SumOver(DOMAIN InDebts,
                              [i \in DOMAIN InDebts |->
                                 InDebts[i].minPaymentMonthly])
        IN  /\ result.totals.debtRequiredMonthly = minSum
            /\ InEssentialMonthly =
                 fixedMonthlyOf(input.fixedExpenses)
                 + subsMonthlyOf(input.subscriptions) + InSavingsMonthly
                 + minSum * UnitsPerCent
            /\ (result.totals.debtRequiredMonthly = 0) <=> (minSum = 0)

\* Two debts, one with a payoff goal and no APR, minimum payments 25 and 0.
C8_Witness ==
    /\ result.kind = "ok"
    /\ Len(InDebts) = 2
    /\ \E i \in DOMAIN InDebts : InDebts[i].payoffGoal # None
    /\ \E i \in DOMAIN InDebts : InDebts[i].payoffGoal = None
    /\ result.totals.debtRequiredMonthly = 2500

\* C9 as claimed: a debt with a payoff goal and no APR counts balance / n in
\* debtRequiredMonthly (n from the goal), whatever its minimum payment; a
\* debt of 2400 with goal 12mo gives 200.00.
C9_GoalDebtIsBalanceOverMonths ==
    (/\ result.kind = "ok"
     /\ Len(InDebts) > 0
     /\ \A i \in DOMAIN InDebts : InDebts[i].payoffGoal # None) =>
        result.totals.debtRequiredMonthly =
            SumOver(DOMAIN InDebts,
                    [i \in DOMAIN InDebts |->
                       calculateDebtPaymentForGoal(
                           InDebts[i].balance,
                           Get(getPayoffMonths(InDebts[i].payoffGoal,
                                               InDebts[i].customPayoffDate,
                                               input.now)))])

\* C10: two calls on the same day whose arguments differ only in the caps
\* return results equal in every field but totals.flexibleCapsMonthly, which
\* is the sum of each call's caps.
C10_CapsDoNotInfluence ==
    capsResult # Pending =>
        IF result.kind = "ok"
        THEN /\ capsResult.kind = "ok"
             /\ [capsResult EXCEPT !.totals.flexibleCapsMonthly = 0]
                  = [result EXCEPT !.totals.flexibleCapsMonthly = 0]
             /\ capsResult.totals.flexibleCapsMonthly * UnitsPerCent
                  = flexibleCapsMonthlyOf(capsInput.flexibleSpending)
        ELSE capsResult = result

\* Both calls are feasible, and the second one's caps exceed the surplus: had
\* the caps counted as essential, the second call would be infeasible.
C10_Witness ==
    /\ capsResult # Pending
    /\ capsResult.kind = "ok"
    /\ capsResult.feasible
    /\ capsResult.safeToSpendToday > 0
    /\ capsResult.totals.flexibleCapsMonthly # result.totals.flexibleCapsMonthly
    /\ capsResult.totals.essentialMonthly
         + capsResult.totals.flexibleCapsMonthly > capsResult.incomeMonthly

\* r cents is what toFixed(2) prints for x units: x rounded to the cent,
\* halves away from zero.
IsToFixed2(r, x) ==
    IF x >= 0 THEN IsRound2(r, x)
    ELSE /\ (2 * r - 1) * (UnitsPerCent \div 2) < x
         /\ x <= (2 * r + 1) * (UnitsPerCent \div 2)

\* C12: in every result warnings is empty exactly when feasible is true; an
\* infeasible plan still gets a result, with exactly one warning, whose
\* shortfall is essentialMonthly - incomeMonthly formatted to 2 decimals.
C12_WarningsIffInfeasible ==
    /\ result.kind = "ok" =>
         /\ result.feasible <=> result.warnings = <<>>
         /\ ~result.feasible =>
              /\ Len(result.warnings) = 1
              /\ IsToFixed2(result.warnings[1].shortfall,
                            InEssentialMonthly - InIncomeMonthly)
    /\ (/\ result # Pending
        /\ ~IsNone(input.income)
        /\ InEssentialMonthly > InIncomeMonthly)
       => (result.kind = "ok" /\ ~result.feasible)

\* An infeasible result whose warning prints a shortfall of 0.00.
C12_Witness ==
    /\ result.kind = "ok"
    /\ ~result.feasible
    /\ Len(result.warnings) = 1
    /\ result.warnings[1].shortfall = 0

-----------------------------------------------------------------------------
(* SpecPayDate: one call of getNextPayDateFromIncome, on any day of two    *)
(* years (the second a leap year), for a stored recurring rule or for an   *)
(* income without one.                                                     *)

NumDays == 731    \* the days on which the call is made: 0 .. NumDays - 1

\* buildIncomeData's stub (income.tsx, lines 52-70) before its nextPayDate
\* is filled in.
MonthlyStub(amount, payDay) ==
    [payFrequency |-> "monthly", netPayAmount |-> amount, nextPayDate |-> None,
     payDayOfMonth |-> Some(payDay), biweeklyPayDay1 |-> None,
     biweeklyPayDay2 |-> None, irregularIncomeEnabled |-> FALSE,
     irregularMonthlyAvg |-> None, irregularReliability |-> None]

BiweeklyStub(amount, day1, day2) ==
    [payFrequency |-> "biweekly", netPayAmount |-> amount, nextPayDate |-> None,
     payDayOfMonth |-> None, biweeklyPayDay1 |-> Some(day1),
     biweeklyPayDay2 |-> Some(day2), irregularIncomeEnabled |-> FALSE,
     irregularMonthlyAvg |-> None, irregularReliability |-> None]

\* Stored next pay dates of an income without a rule: none (an empty
\* string), or a day of the first or the second year.
StoredPayDates == {None, Some(0), Some(100), Some(NumDays - 1)}

\* Incomes without a complete rule: monthly without a pay day, biweekly
\* without pay days or with one of the two.
NoRuleIncomes ==
    {[stub EXCEPT !.nextPayDate = d] :
        stub \in {[MonthlyStub(100000, 1) EXCEPT !.payDayOfMonth = None],
                  [BiweeklyStub(100000, 1, 15) EXCEPT !.biweeklyPayDay1 = None],
                  [BiweeklyStub(100000, 1, 15) EXCEPT !.biweeklyPayDay1 = None,
                                                      !.biweeklyPayDay2 = None]},
        d \in StoredPayDates}

InitPayDate ==
    /\ payIncome \in
         {Some(MonthlyStub(100000, p)) : p \in 1..31}
         \cup {Some(BiweeklyStub(100000, d1, d2)) :
                 d1 \in 1..31, d2 \in 1..31}
         \cup {Some(i) : i \in NoRuleIncomes}
    /\ payToday \in 0 .. (NumDays - 1)
    /\ payResult = None
    /\ CalcIdle /\ DashIdle /\ SessIdle /\ LaterIdle

GetNextPayDate ==
    /\ payResult = None
    /\ payResult' = Some(getNextPayDateFromIncome(Get(payIncome), payToday))
    /\ UNCHANGED <<payIncome, payToday>>
    /\ UNCHANGED calcVars /\ UNCHANGED dashVars /\ UNCHANGED sessVars
    /\ UNCHANGED laterVars

NextPayDate == GetNextPayDate

SpecPayDate == InitPayDate /\ [][NextPayDate]_vars

\* The income has a complete recurring pay-day rule.
HasPayDayRule(income) ==
    \/ income.payFrequency = "monthly" /\ ~IsNone(income.payDayOfMonth)
    \/ /\ income.payFrequency = "biweekly"
       /\ ~IsNone(income.biweeklyPayDay1)
       /\ ~IsNone(income.biweeklyPayDay2)

\* The configured pay days of a recurring rule.
RuleDays(income) ==
    IF income.payFrequency = "monthly"
    THEN {Get(income.payDayOfMonth)}
    ELSE {Get(income.biweeklyPayDay1), Get(income.biweeklyPayDay2)}

\* Day d is an occurrence of the rule: its day of month is a configured day,
\* or the last day of its month when the configured day is past it.
IsOccurrence(days, d) ==
    \E c \in days :
        getDate(d) = Min(c, DaysInMonth(getFullYear(d), getMonth(d)))

\* The earliest occurrence on or after day now (every month holds one).
EarliestOccurrence(days, now) ==
    CHOOSE d \in now .. (now + 62) :
        /\ IsOccurrence(days, d)
        /\ \A e \in now .. (d - 1) : ~IsOccurrence(days, e)

\* C6: for every today and every rule with days in 1..31 the date returned is
\* the earliest date >= today whose day of month is min(configured day, last
\* day of its month) for a configured day; past the current month's
\* candidates it is the next month's earliest one, also from December to
\* January; days 1 and 15 on the 20th of a 30-day month give the 1st of the
\* next month, 11 days away.
C6_NextPayDateIsEarliestOccurrence ==
    (payResult # None /\ HasPayDayRule(Get(payIncome))) =>
        LET days == RuleDays(Get(payIncome))
            r == Get(payResult)
            y == getFullYear(payToday)
            m == getMonth(payToday)
            passed == \A c \in days :
                         Min(c, DaysInMonth(y, m)) < getDate(payToday)
            first == CHOOSE c \in days : \A c2 \in days : c <= c2
        IN  /\ r >= payToday
            /\ r = EarliestOccurrence(days, payToday)
            /\ passed =>
                 /\ getMonth(r) = (m + 1) % 12
                 /\ getFullYear(r) = (IF m = 11 THEN y + 1 ELSE y)
                 /\ getDate(r) = Min(first, DaysInMonth(getFullYear(r), getMonth(r)))
            /\ (/\ days = {1, 15}
                /\ getDate(payToday) = 20
                /\ DaysInMonth(y, m) = 30)
               => (getDate(r) = 1 /\ r - payToday = 11)

\* Days 1 and 15 on the 20th of a 30-day month: the 1st, 11 days away.
C6_Witness ==
    /\ payResult # None
    /\ Get(payIncome).payFrequency = "biweekly"
    /\ HasPayDayRule(Get(payIncome))
    /\ RuleDays(Get(payIncome)) = {1, 15}
    /\ getDate(payToday) = 20
    /\ DaysInMonth(getFullYear(payToday), getMonth(payToday)) = 30
    /\ getDate(Get(payResult)) = 1
    /\ Get(payResult) - payToday = 11

\* C17: without a recurring rule getNextPayDateFromIncome returns the stored
\* nextPayDate when that is today or later, and today when the stored date
\* has passed or is empty; the days until a pay date of today are 1, whatever
\* the clock does on that day.
C17_NoRuleStoredOrToday ==
    (payResult # None /\ ~HasPayDayRule(Get(payIncome))) =>
        LET stored == Get(payIncome).nextPayDate
            r == Get(payResult)
        IN  /\ (~IsNone(stored) /\ Get(stored) >= payToday)
                 => r = Get(stored)
            /\ (IsNone(stored) \/ Get(stored) < payToday)
                 => /\ r = payToday
                    /\ \A z \in {None, Some([day |-> payToday, hours |-> 1]),
                                 Some([day |-> payToday - 1, hours |-> 1])} :
                         daysUntilPaydayOf(r, payToday, z) = 1

\* An income without a rule whose stored date was yesterday: today is
\* returned.
C17_Witness ==
    /\ payResult # None
    /\ ~HasPayDayRule(Get(payIncome))
    /\ Get(payIncome).nextPayDate = Some(payToday - 1)
    /\ payResult = Some(payToday)

-----------------------------------------------------------------------------
(* SpecDashboard: the income screen stores a recurring pay-day rule, days  *)
(* pass, and the dashboard recalculates the budget on focus.  The other    *)
(* tables are empty.                                                       *)

DashDays == 45    \* the days that pass: today runs over 0 .. DashDays

\* The rules the income screen is given.
DashRules ==
    {MonthlyStub(100000, 15), MonthlyStub(100000, 31),
     BiweeklyStub(100000, 1, 15)}

\* buildIncomeData (income.tsx, lines 26-73) for valid fields: the stub with
\* its nextPayDate computed on the day of the edit.
buildIncomeData(stub, now) ==
    [stub EXCEPT !.nextPayDate = Some(getNextPayDateFromIncome(stub, now))]

\* saveIncomeData: the row written; an empty nextPayDate is computed.
saveIncomeData(data, now) ==
    IF IsNone(data.nextPayDate)
    THEN [data EXCEPT !.nextPayDate = Some(getNextPayDateFromIncome(data, now))]
    ELSE data

\* getIncomeData: null without a row; a stored weekly frequency reads as
\* monthly; the stored next_pay_date is returned as it is.
getIncomeData(row) ==
    IF IsNone(row) THEN None
    ELSE Some([Get(row) EXCEPT !.payFrequency =
                 IF @ = "weekly" THEN "monthly" ELSE @])

\* useBudget.loadBudget with the default balanceNow: the six getters, then
\* calculateBudget on what they returned, in a time zone that does not change
\* its clocks in these days.
loadBudget(row, now) ==
    calculateBudget(getIncomeData(row), Some(<<>>), Some(<<>>), None, None, Some(<<>>), 0, now, None)

InitDashboard ==
    /\ today = 0
    /\ incomeRow = None
    /\ budget = Pending
    /\ budgetDay = 0
    /\ CalcIdle /\ PayIdle /\ SessIdle /\ LaterIdle

\* IncomeScreen.handleContinue (and saveAndRefresh in edit mode):
\* buildIncomeData, saveIncomeData, then refresh().
SaveIncome ==
    \E stub \in DashRules :
        /\ incomeRow' = Some(saveIncomeData(buildIncomeData(stub, today), today))
        /\ budget' = loadBudget(incomeRow', today)
        /\ budgetDay' = today
        /\ UNCHANGED today
        /\ UNCHANGED calcVars /\ UNCHANGED payVars /\ UNCHANGED sessVars
        /\ UNCHANGED laterVars

\* A day passes.
NextDay ==
    /\ today < DashDays
    /\ today' = today + 1
    /\ UNCHANGED <<incomeRow, budget, budgetDay>>
    /\ UNCHANGED calcVars /\ UNCHANGED payVars /\ UNCHANGED sessVars
    /\ UNCHANGED laterVars

\* Dashboard's useFocusEffect: refresh().
Focus ==
    /\ budget' = loadBudget(incomeRow, today)
    /\ budgetDay' = today
    /\ UNCHANGED <<today, incomeRow>>
    /\ UNCHANGED calcVars /\ UNCHANGED payVars /\ UNCHANGED sessVars
    /\ UNCHANGED laterVars

NextDashboard == SaveIncome \/ NextDay \/ Focus

SpecDashboard == InitDashboard /\ [][NextDashboard]_vars

\* C5 as claimed: with a recurring rule stored, the budget calculated on any
\* later day carries as nextPayDate the rule's next occurrence on or after
\* that day, never a past date, and daysUntilPayday is the number of days to
\* it (at least 1, the engine's floor).
C5_DashboardPayDateFollowsRule ==
    budget.kind = "ok" =>
        LET next == EarliestOccurrence(RuleDays(Get(incomeRow)), budgetDay)
        IN  /\ budget.nextPayDate >= budgetDay
            /\ budget.nextPayDate = next
            /\ budget.daysUntilPayday = Max(1, next - budgetDay)

-----------------------------------------------------------------------------
(* SpecSession: the calls of calculateBudget made on one day: a first      *)
(* call, calls on other arguments in between, and the first call repeated. *)

\* Amounts are in cents; "daily" is a frequency the normalizer does not know.
SessionAmounts == {0 - 5000, 0, 250000, 500000}
SessionFrequencies == {"biweekly", "monthly", "daily"}
SessionIrregular ==
    {[enabled |-> FALSE, avg |-> None, reliability |-> None],
     [enabled |-> TRUE, avg |-> Some(40001), reliability |-> Some("low")]}
SessionPayDateOffsets == {0 - 1, 0, 15}

\* Time zones: no clock change, clocks put back on day 7, put forward on day 7.
SessionZones ==
    {None, Some([day |-> 7, hours |-> 1]), Some([day |-> 7, hours |-> 0 - 1])}

SessionIncomes ==
    {[payFrequency |-> f, netPayAmount |-> a, nextPayDate |-> Some(d),
      payDayOfMonth |-> None, biweeklyPayDay1 |-> None,
      biweeklyPayDay2 |-> None,
      irregularIncomeEnabled |-> i.enabled,
      irregularMonthlyAvg |-> i.avg,
      irregularReliability |-> i.reliability] :
        f \in SessionFrequencies, a \in SessionAmounts,
        d \in SessionPayDateOffsets, i \in SessionIrregular}

Rent(amount) == [name |-> "Rent", amountMonthly |-> amount, enabled |-> TRUE]
SessionFixed ==
    {None,
     Some(<<Rent(200000)>>),
     Some(<<Rent(550000)>>),
     Some(<<Rent(200000),
            [name |-> "Gym", amountMonthly |-> 5000, enabled |-> FALSE]>>)}
SessionSubscriptions ==
    {None, Some(<<>>), Some(<<[name |-> "Music", amountMonthly |-> 999]>>)}
SessionCaps ==
    Some([eatingOut |-> 20000, entertainment |-> 10000, shopping |-> 0,
          miscBuffer |-> 0])
SessionSavings ==
    {None,
     Some([enabled |-> FALSE, savingsMode |-> Some("percent"),
           savingsValue |-> Some(10)]),
     Some([enabled |-> TRUE, savingsMode |-> Some("percent"),
           savingsValue |-> Some(10)]),
     Some([enabled |-> TRUE, savingsMode |-> Some("percent"),
           savingsValue |-> Some(50)]),
     Some([enabled |-> TRUE, savingsMode |-> Some("fixedAmount"),
           savingsValue |-> Some(30000)])}
SessionDebts ==
    {None, Some(<<>>),
     Some(<<[debtType |-> "Credit Card", balance |-> 240000,
             minPaymentMonthly |-> 2500, payoffGoal |-> Some("12mo"),
             customPayoffDate |-> None]>>),
     Some(<<[debtType |-> "Loan", balance |-> 60000,
             minPaymentMonthly |-> 2500, payoffGoal |-> Some("customDate"),
             customPayoffDate |-> Some(0 - 10)]>>)}

SessionInputs ==
    [income : {None} \cup {Some(i) : i \in SessionIncomes},
     fixedExpenses : SessionFixed,
     subscriptions : SessionSubscriptions,
     flexibleSpending : {SessionCaps},
     savings : SessionSavings,
     debts : SessionDebts,
     balanceNow : {0},
     now : {0},
     zone : SessionZones]

\* Scenario A: monthly income 5000, one enabled fixed expense of 2000, no
\* subscriptions, caps {200, 100, 0, 0}, savings 10% enabled, no debts, the
\* next pay date 15 days after today.
ScenarioA ==
    [income |-> Some([payFrequency |-> "monthly", netPayAmount |-> 500000,
                      nextPayDate |-> Some(15),
                      payDayOfMonth |-> None, biweeklyPayDay1 |-> None,
                      biweeklyPayDay2 |-> None,
                      irregularIncomeEnabled |-> FALSE,
                      irregularMonthlyAvg |-> None,
                      irregularReliability |-> None]),
     fixedExpenses |-> Some(<<Rent(200000)>>),
     subscriptions |-> Some(<<>>),
     flexibleSpending |-> SessionCaps,
     savings |-> Some([enabled |-> TRUE, savingsMode |-> Some("percent"),
                       savingsValue |-> Some(10)]),
     debts |-> Some(<<>>),
     balanceNow |-> 0,
     now |-> 0,
     zone |-> None]

\* Scenario B: Scenario A with the fixed expense raised to 5500.
ScenarioB == [ScenarioA EXCEPT !.fixedExpenses = Some(<<Rent(550000)>>)]

\* in with another net pay amount and nothing else changed.
WithNetPay(in, amount) ==
    [in EXCEPT !.income = Some([Get(in.income) EXCEPT !.netPayAmount = amount])]

\* The arguments of the calls made in between: the first call's with another
\* net pay amount or with a balance of 500, or those of Scenario A.
OtherInputs(in) ==
    ((IF IsNone(in.income) THEN {}
      ELSE {WithNetPay(in, a) : a \in SessionAmounts})
     \cup {[in EXCEPT !.balanceNow = 50000], ScenarioA}) \ {in}

InitSession ==
    /\ callInput \in SessionInputs
    /\ callResult = Pending
    /\ otherInput = None
    /\ otherResult = Pending
    /\ againResult = Pending
    /\ CalcIdle /\ PayIdle /\ DashIdle /\ LaterIdle

\* The first call: await calculateBudget(...).
CalculateFirst ==
    /\ callResult = Pending
    /\ callResult' = Run(callInput)
    /\ UNCHANGED <<callInput, otherInput, otherResult, againResult>>
    /\ UNCHANGED calcVars /\ UNCHANGED payVars /\ UNCHANGED dashVars
    /\ UNCHANGED laterVars

\* A call on other arguments, any number of times before the repetition.
CalculateOther ==
    /\ callResult # Pending
    /\ againResult = Pending
    /\ \E in \in OtherInputs(callInput) :
         /\ otherInput' = in
         /\ otherResult' = Run(in)
    /\ UNCHANGED <<callInput, callResult, againResult>>
    /\ UNCHANGED calcVars /\ UNCHANGED payVars /\ UNCHANGED dashVars
    /\ UNCHANGED laterVars

\* The repetition answered from a memo of the latest result.
CalculateAgainMemo ==
    /\ callResult # Pending
    /\ againResult = Pending
    /\ againResult' = IF otherResult # Pending THEN otherResult
                      ELSE Run(callInput)
    /\ UNCHANGED <<callInput, callResult, otherInput, otherResult>>
    /\ UNCHANGED calcVars /\ UNCHANGED payVars /\ UNCHANGED dashVars
    /\ UNCHANGED laterVars

\* The first call repeated on the same day: calculateBudget reads its
\* arguments and `new Date()`, and nothing that an earlier call wrote.
CalculateAgain ==
    /\ callResult # Pending
    /\ againResult = Pending
    /\ againResult' = Run(callInput)
    /\ UNCHANGED <<callInput, callResult, otherInput, otherResult>>
    /\ UNCHANGED calcVars /\ UNCHANGED payVars /\ UNCHANGED dashVars
    /\ UNCHANGED laterVars

NextSession == CalculateFirst \/ CalculateOther \/ CalculateAgain

SpecSession == InitSession /\ [][NextSession]_vars

-----------------------------------------------------------------------------
(* The claims about the calls of a session, checked under SpecSession.     *)

\* The lists of the first call, an absent list read as empty.
CallFixed ==
    IF IsNone(callInput.fixedExpenses) THEN <<>>
    ELSE Get(callInput.fixedExpenses)
CallSubs ==
    IF IsNone(callInput.subscriptions) THEN <<>>
    ELSE Get(callInput.subscriptions)
\* The unrounded monthly income of the first call, in units.
CallIncomeMonthly == incomeMonthlyOf(Get(callInput.income)).value

\* C11: fixedMonthly is the sum of amountMonthly over the enabled fixed
\* expenses only, subsMonthly the sum over all subscriptions, savingsMonthly
\* the value (enabled, fixed amount), incomeMonthly * value / 100 (enabled,
\* percent) or 0 (savings absent or disabled); an absent list counts as empty.
C11_MonthlyTotals ==
    callResult.kind = "ok" =>
        LET enabledFixed == {i \in DOMAIN CallFixed : CallFixed[i].enabled}
            sav == callInput.savings
        IN  /\ callResult.totals.fixedMonthly
                 = SumOver(enabledFixed,
                           [i \in DOMAIN CallFixed |->
                              CallFixed[i].amountMonthly])
            /\ callResult.totals.subsMonthly
                 = SumOver(DOMAIN CallSubs,
                           [i \in DOMAIN CallSubs |->
                              CallSubs[i].amountMonthly])
            /\ (IsNone(sav) \/ ~Get(sav).enabled)
                 => callResult.totals.savingsMonthly = 0
            /\ (/\ ~IsNone(sav) /\ Get(sav).enabled
                /\ Get(sav).savingsMode = Some("fixedAmount"))
                 => callResult.totals.savingsMonthly
                      = Get(Get(sav).savingsValue)
            /\ (/\ ~IsNone(sav) /\ Get(sav).enabled
                /\ Get(sav).savingsMode = Some("percent"))
                 => IsRound2(callResult.totals.savingsMonthly,
                             (CallIncomeMonthly \div 100)
                             * Get(Get(sav).savingsValue))

\* A result for a list with a disabled expense, no subscription list and an
\* enabled percent goal.
C11_Witness ==
    /\ callResult.kind = "ok"
    /\ \E i \in DOMAIN CallFixed :
         ~CallFixed[i].enabled /\ CallFixed[i].amountMonthly > 0
    /\ callResult.totals.fixedMonthly = 200000
    /\ IsNone(callInput.subscriptions)
    /\ callResult.totals.subsMonthly = 0
    /\ ~IsNone(callInput.savings)
    /\ Get(callInput.savings).enabled
    /\ Get(callInput.savings).savingsMode = Some("percent")
    /\ callResult.totals.savingsMonthly > 0

\* The call in between had the first call's arguments but for the net pay.
OtherDiffersInNetPayOnly ==
    /\ otherInput # None
    /\ ~IsNone(callInput.income)
    /\ ~IsNone(otherInput.income)
    /\ otherInput
         = WithNetPay(callInput, Get(otherInput.income).netPayAmount)

\* C13: of two calls on the same day whose arguments differ in netPayAmount
\* only (savings absent, disabled, a fixed amount, or a percentage of 10 or
\* 50), the one with the larger netPayAmount returns a safeToSpendToday that
\* is not smaller.
C13_MonotoneInNetPay ==
    (/\ callResult.kind = "ok"
     /\ otherResult.kind = "ok"
     /\ OtherDiffersInNetPayOnly) =>
        LET a == Get(callInput.income).netPayAmount
            b == Get(otherInput.income).netPayAmount
        IN  /\ a <= b =>
                 callResult.safeToSpendToday <= otherResult.safeToSpendToday
            /\ b <= a =>
                 otherResult.safeToSpendToday <= callResult.safeToSpendToday

\* Two calls that differ in the net pay only, with savings of 50 percent:
\* the smaller pay leaves nothing to spend, the larger something.
C13_Witness ==
    /\ callResult.kind = "ok"
    /\ otherResult.kind = "ok"
    /\ OtherDiffersInNetPayOnly
    /\ callInput.savings
         = Some([enabled |-> TRUE, savingsMode |-> Some("percent"),
                 savingsValue |-> Some(50)])
    /\ Get(callInput.income).netPayAmount
         < Get(otherInput.income).netPayAmount
    /\ callResult.safeToSpendToday = 0
    /\ ~callResult.feasible
    /\ otherResult.safeToSpendToday > 0

ResultFields ==
    {"kind", "feasible", "incomeMonthly", "totals", "safeToSpendUntilPayday",
     "safeToSpendToday", "daysUntilPayday", "nextPayDate", "warnings"}

\* C15: without an income profile calculateBudget returns null, whatever the
\* other arguments are, and no total is computed; what it returns is never a
\* partially filled result: null, or a result with every field.
C15_NoIncomeReturnsNull ==
    callResult # Pending =>
        /\ IsNone(callInput.income) => callResult = [kind |-> "null"]
        /\ callResult.kind = "null" => IsNone(callInput.income)
        /\ callResult.kind = "ok" => DOMAIN callResult = ResultFields

\* A call without an income profile and with expenses, savings and debts.
C15_Witness ==
    /\ callResult = [kind |-> "null"]
    /\ IsNone(callInput.income)
    /\ Len(CallFixed) > 0
    /\ Len(CallSubs) > 0
    /\ ~IsNone(callInput.savings)
    /\ Get(callInput.savings).enabled
    /\ ~IsNone(callInput.debts)
    /\ Len(Get(callInput.debts)) > 0

\* C16 as claimed: a call whose income has netPayAmount <= 0, or a pay
\* frequency other than weekly, biweekly and monthly, fails with an error
\* and returns no result.
C16_InvalidIncomeFails ==
    (/\ callResult # Pending
     /\ ~IsNone(callInput.income)
     /\ \/ Get(callInput.income).netPayAmount <= 0
        \/ Get(callInput.income).payFrequency
             \notin {"weekly", "biweekly", "monthly"})
    => callResult.kind = "error"

\* C18 as claimed: daysUntilPayday is max(1, whole days from today to the pay
\* date): at least 1, 1 for a pay date of today or earlier, and k for a pay
\* date k >= 1 days ahead.
C18_DaysUntilPaydayIsWholeDays ==
    callResult.kind = "ok" =>
        LET k == callResult.nextPayDate - callInput.now
        IN  /\ callResult.daysUntilPayday >= 1
            /\ k <= 0 => callResult.daysUntilPayday = 1
            /\ k >= 1 => callResult.daysUntilPayday = k

\* The arguments are those of a scenario, in whatever time zone.
IsScenario(in, scenario) == [in EXCEPT !.zone = None] = scenario

\* C19 as claimed: Scenario A gives incomeMonthly 5000, essentialMonthly
\* 2500, feasible, safeToSpendToday 82.13 and safeToSpendUntilPayday 1231.91.
C19_ScenarioAClaimed ==
    (callResult # Pending /\ IsScenario(callInput, ScenarioA)) =>
        /\ callResult.kind = "ok"
        /\ callResult.incomeMonthly = 500000
        /\ callResult.totals.essentialMonthly = 250000
        /\ callResult.feasible
        /\ callResult.safeToSpendToday = 8213
        /\ callResult.safeToSpendUntilPayday = 123191

\* C19 amended: Scenario A gives incomeMonthly 5000, essentialMonthly 2500,
\* feasible, safeToSpendToday 82.13 and, for the 15 days counted when the
\* clocks are not put back before the pay date, safeToSpendUntilPayday
\* 1231.93; when the clocks are put back in between, 16 days are counted and
\* safeToSpendUntilPayday is 1314.06.
C19_ScenarioA ==
    (callResult # Pending /\ IsScenario(callInput, ScenarioA)) =>
        /\ callResult.kind = "ok"
        /\ callResult.incomeMonthly = 500000
        /\ callResult.totals.essentialMonthly = 250000
        /\ callResult.feasible
        /\ callResult.safeToSpendToday = 8213
        /\ IF callInput.zone = Some([day |-> 7, hours |-> 1])
           THEN /\ callResult.daysUntilPayday = 16
                /\ callResult.safeToSpendUntilPayday = 131406
           ELSE /\ callResult.daysUntilPayday = 15
                /\ callResult.safeToSpendUntilPayday = 123193

\* Scenario A calculated, without a clock change.
C19_Witness ==
    /\ callInput = ScenarioA
    /\ callResult.kind = "ok"
    /\ callResult.daysUntilPayday = 15
    /\ callResult.safeToSpendUntilPayday = 123193

\* C20 as claimed: Scenario B gives feasible = false, a warning with a
\* shortfall of 500.00, and both safe-to-spend figures 0.
C20_ScenarioBClaimed ==
    (callResult # Pending /\ IsScenario(callInput, ScenarioB)) =>
        /\ callResult.kind = "ok"
        /\ ~callResult.feasible
        /\ Len(callResult.warnings) = 1
        /\ callResult.warnings[1].shortfall = 50000
        /\ callResult.safeToSpendToday = 0
        /\ callResult.safeToSpendUntilPayday = 0

\* C20 amended: Scenario B has essentialMonthly = 5500 + 500 of savings =
\* 6000 and gives feasible = false, one warning with a shortfall of 1000.00,
\* and both safe-to-spend figures 0.
C20_ScenarioB ==
    (callResult # Pending /\ IsScenario(callInput, ScenarioB)) =>
        /\ callResult.kind = "ok"
        /\ ~callResult.feasible
        /\ callResult.totals.savingsMonthly = 50000
        /\ callResult.totals.essentialMonthly = 600000
        /\ Len(callResult.warnings) = 1
        /\ callResult.warnings[1].shortfall = 100000
        /\ callResult.safeToSpendToday = 0
        /\ callResult.safeToSpendUntilPayday = 0

\* Scenario B calculated.
C20_Witness ==
    /\ callInput = ScenarioB
    /\ callResult.kind = "ok"
    /\ ~callResult.feasible
    /\ callResult.warnings[1].shortfall = 100000

-----------------------------------------------------------------------------
(* SpecStore: services/database.ts as the screens use it: save calls that  *)
(* run statement by statement (every `await` lets other calls run) and     *)
(* getter calls between any two statements.                                *)

MaxSaves == 2     \* the save calls made

StoreKinds == {"income", "fixed_expenses"}

\* What a save call may be given: an IncomeData (one row to insert), or a
\* list of FixedExpense (a row each).
IncomeA == saveIncomeData(MonthlyStub(100000, 15), 0)
IncomeB == saveIncomeData(MonthlyStub(250000, 1), 0)
ExpensesA ==
    <<Rent(200000), [name |-> "Gym", amountMonthly |-> 5000, enabled |-> TRUE]>>
ExpensesB ==
    <<Rent(200000), [name |-> "Gym", amountMonthly |-> 5000, enabled |-> FALSE]>>
StoreValues(kind) ==
    IF kind = "income" THEN {<<IncomeA>>, <<IncomeB>>}
    ELSE {<<>>, ExpensesA, ExpensesB}

NoSave ==
    [pc |-> "idle", kind |-> "income", value |-> <<>>, next |-> 0,
     started |-> 0, alone |-> FALSE, old |-> <<>>]

\* A save call has been made and has not returned.
InProgress(s) == dbSaves[s].pc \in {"delete", "insert"}

\* The number of save calls made so far.
SavesStarted == Cardinality({s \in DOMAIN dbSaves : dbSaves[s].pc # "idle"})

\* The tables hold what earlier, completed saves left: nothing, or one value.
InitStore ==
    /\ dbTables \in [income : {<<>>, <<IncomeA>>},
                     fixed_expenses : {<<>>, ExpensesA}]
    /\ dbSaves = [s \in 1..MaxSaves |-> NoSave]
    /\ dbRead = None
    /\ EarlierIdle /\ SavIdle /\ HookIdle /\ LaunchIdle /\ InitDbIdle

\* saveIncomeData / saveFixedExpenses is called: it runs up to its first
\* database statement (`await initDatabase()` returns the open handle).
\* started, alone and old record the call for the claims: its place in the
\* order of calls, whether no other save of the kind has run beside it, and
\* the table when it was called.
StartSave(s) ==
    /\ dbSaves[s].pc = "idle"
    /\ \E kind \in StoreKinds : \E value \in StoreValues(kind) :
         dbSaves' =
            [t \in DOMAIN dbSaves |->
               IF t = s
               THEN [pc |-> "delete", kind |-> kind, value |-> value,
                     next |-> 1, started |-> SavesStarted + 1,
                     alone |-> \A u \in DOMAIN dbSaves :
                                 ~(InProgress(u) /\ dbSaves[u].kind = kind),
                     old |-> dbTables[kind]]
               ELSE IF InProgress(t) /\ dbSaves[t].kind = kind
               THEN [dbSaves[t] EXCEPT !.alone = FALSE]
               ELSE dbSaves[t]]
    /\ UNCHANGED <<dbTables, dbRead>>
    /\ UNCHANGED <<earlierVars, savVars, hookVars, launchVars, initDbVars>>

\* await database.runAsync('DELETE FROM <table>').
SaveDelete(s) ==
    /\ dbSaves[s].pc = "delete"
    /\ dbTables' = [dbTables EXCEPT ![dbSaves[s].kind] = <<>>]
    /\ dbSaves' = [dbSaves EXCEPT ![s].pc =
                     IF Len(dbSaves[s].value) = 0 THEN "done" ELSE "insert"]
    /\ UNCHANGED dbRead
    /\ UNCHANGED <<earlierVars, savVars, hookVars, launchVars, initDbVars>>

\* await database.runAsync('INSERT INTO <table> ...') for the next row; the
\* call returns after the last one.
SaveInsert(s) ==
    /\ dbSaves[s].pc = "insert"
    /\ dbTables' = [dbTables EXCEPT ![dbSaves[s].kind] =
                      Append(@, dbSaves[s].value[dbSaves[s].next])]
    /\ dbSaves' = [dbSaves EXCEPT
                     ![s].next = @ + 1,
                     ![s].pc = IF dbSaves[s].next = Len(dbSaves[s].value)
                               THEN "done" ELSE "insert"]
    /\ UNCHANGED dbRead
    /\ UNCHANGED <<earlierVars, savVars, hookVars, launchVars, initDbVars>>

\* getFixedExpenses: every row of the table, in order (the id column is left
\* out of the model).
getFixedExpenses(rows) == rows

\* The getter of a kind on the table's rows: getIncomeData reads the first
\* row (`SELECT * FROM income LIMIT 1`) and returns null without one.
getOfKind(kind, rows) ==
    IF kind = "income"
    THEN getIncomeData(IF Len(rows) = 0 THEN None ELSE Some(rows[1]))
    ELSE getFixedExpenses(rows)

\* What the getter of a kind returns for a stored value.
Returned(kind, value) == getOfKind(kind, value)

\* getIncomeData / getFixedExpenses is called and returns.  racing says
\* that exactly one save of the kind is in progress and has run alone, that
\* the table held rows when it was called, and that it writes rows; old and
\* new are what the getter returns before and after such a save.
ReadKind ==
    \E kind \in StoreKinds :
        LET racers == {s \in DOMAIN dbSaves :
                         InProgress(s) /\ dbSaves[s].kind = kind}
            s == CHOOSE t \in racers : TRUE
            racing == /\ Cardinality(racers) = 1
                      /\ dbSaves[s].alone
                      /\ Len(dbSaves[s].old) > 0
                      /\ Len(dbSaves[s].value) > 0
        IN  /\ dbRead' = Some([kind |-> kind,
                               value |-> getOfKind(kind, dbTables[kind]),
                               racing |-> racing,
                               old |-> IF racing
                                       THEN Returned(kind, dbSaves[s].old)
                                       ELSE None,
                               new |-> IF racing
                                       THEN Returned(kind, dbSaves[s].value)
                                       ELSE None])
            /\ UNCHANGED <<dbTables, dbSaves>>
            /\ UNCHANGED <<earlierVars, savVars, hookVars, launchVars, initDbVars>>

NextStore ==
    \/ \E s \in 1..MaxSaves : StartSave(s)
    \/ \E s \in 1..MaxSaves : SaveDelete(s)
    \/ \E s \in 1..MaxSaves : SaveInsert(s)
    \/ ReadKind

SpecStore == InitStore /\ [][NextStore]_vars

-----------------------------------------------------------------------------
(* The claims about the store, checked under SpecStore.                    *)

\* C21 as claimed: a getter call interleaved with a save of its kind, when
\* the table held a value before the save and the save writes a non-empty
\* one, returns the complete old value or the complete new value.
C21_ReadSeesOldOrNew ==
    (dbRead # None /\ Get(dbRead).racing) =>
        Get(dbRead).value \in {Get(dbRead).old, Get(dbRead).new}

\* The saves of a kind that have returned, and the one called last.
DoneSaves(kind) ==
    {s \in DOMAIN dbSaves : dbSaves[s].pc = "done" /\ dbSaves[s].kind = kind}
LastStarted(S) == CHOOSE s \in S : \A t \in S : dbSaves[t].started <= dbSaves[s].started

\* C22 as claimed: once the saves of a kind have all returned, the table
\* holds exactly the value of the save called last, and the income table
\* exactly one row.
C22_LastWriteWins ==
    \A kind \in StoreKinds :
        (/\ DoneSaves(kind) # {}
         /\ \A s \in DOMAIN dbSaves :
              dbSaves[s].kind = kind => ~InProgress(s))
        => /\ dbTables[kind] = dbSaves[LastStarted(DoneSaves(kind))].value
           /\ kind = "income" => Len(dbTables[kind]) = 1

-----------------------------------------------------------------------------
(* More claims about the calls of a session, checked under SpecSession.    *)

\* The unrounded essential sum of the first call, in units.
CallEssentialMonthly ==
    fixedMonthlyOf(callInput.fixedExpenses)
    + subsMonthlyOf(callInput.subscriptions)
    + savingsMonthlyOf(callInput.savings, CallIncomeMonthly)
    + calculateDebtRequiredMonthly(
          IF IsNone(callInput.debts) THEN <<>> ELSE Get(callInput.debts),
          callInput.now)

\* r cents is balance - (essential units / 30.44) * days rounded to the cent,
\* halves up.
IsBalanceMinusDaily(r, balance, essential, days) ==
    LET q == essential \div DailyDivisor
        rem == essential % DailyDivisor
        f == balance - r - q * days
    IN  /\ (2 * f - 1) * DailyDivisor < 2 * rem * days
        /\ 2 * rem * days <= (2 * f + 1) * DailyDivisor

OtherDiffersInBalanceOnly ==
    /\ otherInput # None
    /\ otherInput.balanceNow # callInput.balanceNow
    /\ otherInput = [callInput EXCEPT !.balanceNow = otherInput.balanceNow]

CallDebts == IF IsNone(callInput.debts) THEN <<>> ELSE Get(callInput.debts)

\* C25 as claimed: with a debt whose payoff goal is a custom date on or
\* before today the horizon is 1 month (the whole balance is required this
\* month), a result is returned, and its warnings hold a warning about the
\* clamped goal.
C25_PastCustomDateClampedWithWarning ==
    (/\ callResult # Pending
     /\ ~IsNone(callInput.income)
     /\ Get(callInput.income).payFrequency \in PayFrequencies
     /\ \E i \in DOMAIN CallDebts :
          /\ CallDebts[i].payoffGoal = Some("customDate")
          /\ ~IsNone(CallDebts[i].customPayoffDate)
          /\ Get(CallDebts[i].customPayoffDate) <= callInput.now)
    => /\ callResult.kind = "ok"
       /\ callResult.totals.debtRequiredMonthly
            = SumOver(DOMAIN CallDebts,
                      [i \in DOMAIN CallDebts |-> CallDebts[i].balance])
       /\ \E w \in DOMAIN callResult.warnings :
            callResult.warnings[w].kind = "clampedGoal"

-----------------------------------------------------------------------------
(* SpecSavings: the savings screen, in onboarding and in edit mode, and    *)
(* the savings row it persists.                                            *)

\* What the user may have typed into the value field, and what parseFloat
\* makes of it: a number, or NaN for the empty text.
ValueTexts == {"", "-5", "0", "30", "75"}
NaN == [isNaN |-> TRUE, number |-> 0]
Number(n) == [isNaN |-> FALSE, number |-> n]
parseFloat(text) ==
    CASE text = ""   -> NaN
      [] text = "-5" -> Number(0 - 5)
      [] text = "0"  -> Number(0)
      [] text = "30" -> Number(30)
      [] text = "75" -> Number(75)

\* Number.prototype.toString() for the numbers a row can hold.
toString(n) ==
    CASE n = 0 - 5 -> "-5"
      [] n = 0     -> "0"
      [] n = 30    -> "30"
      [] n = 75    -> "75"

\* buildSavingsData (part_002, lines 588-602): savingsValue is
\* parseFloat(text) when enabled, undefined otherwise; the goal name is left
\* empty in the model.
buildSavingsData(enabled, savingsType, savingsMode, savingsValue, goalName) ==
    [enabled |-> enabled,
     savingsType |-> IF enabled THEN Some(savingsType) ELSE None,
     savingsMode |-> IF enabled THEN Some(savingsMode) ELSE None,
     savingsValue |-> IF enabled THEN Some(parseFloat(savingsValue)) ELSE None,
     goalName |-> None]

\* saveSavingsGoal: the row inserted.  `data.savingsValue || null` stores
\* NULL for undefined, NaN and 0, and the number otherwise.
savingsRow(data) ==
    [enabled |-> data.enabled,
     savingsType |-> data.savingsType,
     savingsMode |-> data.savingsMode,
     savingsValue |-> IF \/ IsNone(data.savingsValue)
                         \/ Get(data.savingsValue).isNaN
                         \/ Get(data.savingsValue).number = 0
                      THEN None
                      ELSE Some(Get(data.savingsValue).number),
     goalName |-> data.goalName]

\* The rows an earlier, validated Continue can have left.
StoredSavings ==
    {savingsRow(buildSavingsData(e, "Emergency", m, "30", ""))
       : e \in BOOLEAN, m \in {"fixedAmount", "percent"}}

\* The component's initial state (the useState defaults, lines 607-615).
InitialScreen(isEditMode) ==
    [isEditMode |-> isEditMode, loaded |-> FALSE, enabled |-> FALSE,
     savingsType |-> "Emergency", savingsMode |-> "fixedAmount",
     savingsValue |-> ""]

InitSavings ==
    /\ \E isEditMode \in BOOLEAN :
         /\ savScreen = InitialScreen(isEditMode)
         /\ savRow \in (IF isEditMode
                        THEN {None} \cup {Some(r) : r \in StoredSavings}
                        ELSE {None})
    /\ EarlierIdle /\ StoreIdle /\ HookIdle /\ LaunchIdle /\ InitDbIdle

\* applyChange (lines 645-650): in edit mode the data is saved (and the
\* budget refreshed); outside edit mode nothing is saved.
applyChange(data) ==
    IF savScreen.isEditMode THEN Some(savingsRow(data)) ELSE savRow

\* loadExistingData (lines 624-635), run once on mount in edit mode.
LoadExistingData ==
    /\ savScreen.isEditMode
    /\ ~savScreen.loaded
    /\ savScreen' =
         IF IsNone(savRow) THEN [savScreen EXCEPT !.loaded = TRUE]
         ELSE LET existing == Get(savRow)
              IN  [savScreen EXCEPT
                     !.loaded = TRUE,
                     !.enabled = existing.enabled,
                     !.savingsType = IF IsNone(existing.savingsType) THEN @
                                     ELSE Get(existing.savingsType),
                     !.savingsMode = IF IsNone(existing.savingsMode) THEN @
                                     ELSE Get(existing.savingsMode),
                     !.savingsValue = IF IsNone(existing.savingsValue) THEN @
                                      ELSE toString(Get(existing.savingsValue))]
    /\ UNCHANGED savRow
    /\ UNCHANGED <<earlierVars, storeVars, hookVars, launchVars, initDbVars>>

\* onChangeText={setSavingsValue}: typing saves nothing.
TypeValue ==
    /\ savScreen.enabled
    /\ \E text \in ValueTexts \ {savScreen.savingsValue} :
         savScreen' = [savScreen EXCEPT !.savingsValue = text]
    /\ UNCHANGED savRow
    /\ UNCHANGED <<earlierVars, storeVars, hookVars, launchVars, initDbVars>>

\* The Yes / "Not right now" buttons (lines 715-770).
PressEnabled ==
    /\ \E e \in BOOLEAN :
         /\ savScreen' = [savScreen EXCEPT !.enabled = e]
         /\ savRow' = applyChange(
                buildSavingsData(e, savScreen.savingsType,
                                 savScreen.savingsMode,
                                 savScreen.savingsValue, ""))
    /\ UNCHANGED <<earlierVars, storeVars, hookVars, launchVars, initDbVars>>

\* A savings type button (lines 783-797), shown when enabled.
PressType ==
    /\ savScreen.enabled
    /\ \E type \in {"Emergency", "Goal"} :
         /\ savScreen' = [savScreen EXCEPT !.savingsType = type]
         /\ savRow' = applyChange(
                buildSavingsData(TRUE, type, savScreen.savingsMode,
                                 savScreen.savingsValue, ""))
    /\ UNCHANGED <<earlierVars, storeVars, hookVars, launchVars, initDbVars>>

\* A savings mode button (lines 826-840), shown when enabled.
PressMode ==
    /\ savScreen.enabled
    /\ \E mode \in {"fixedAmount", "percent"} :
         /\ savScreen' = [savScreen EXCEPT !.savingsMode = mode]
         /\ savRow' = applyChange(
                buildSavingsData(TRUE, savScreen.savingsType, mode,
                                 savScreen.savingsValue, ""))
    /\ UNCHANGED <<earlierVars, storeVars, hookVars, launchVars, initDbVars>>

\* onBlur of the value field and of the goal-name field (lines 871-908).
BlurField ==
    /\ savScreen.enabled
    /\ savRow' = applyChange(
           buildSavingsData(TRUE, savScreen.savingsType,
                            savScreen.savingsMode,
                            savScreen.savingsValue, ""))
    /\ UNCHANGED savScreen
    /\ UNCHANGED <<earlierVars, storeVars, hookVars, launchVars, initDbVars>>

\* handleContinue (lines 652-674); the button is shown outside edit mode.
\* An invalid value raises an alert and saves nothing.
SavingsContinue ==
    /\ ~savScreen.isEditMode
    /\ LET value == parseFloat(savScreen.savingsValue)
           invalid ==
              /\ savScreen.enabled
              /\ \/ value.isNaN
                 \/ value.number < 0
                 \/ /\ savScreen.savingsMode = "percent"
                    /\ (value.number < 0 \/ value.number > 50)
       IN  savRow' =
              IF invalid THEN savRow
              ELSE Some(savingsRow(
                     buildSavingsData(savScreen.enabled, savScreen.savingsType,
                                      savScreen.savingsMode,
                                      savScreen.savingsValue, "")))
    /\ UNCHANGED savScreen
    /\ UNCHANGED <<earlierVars, storeVars, hookVars, launchVars, initDbVars>>

NextSavings ==
    \/ LoadExistingData
    \/ TypeValue
    \/ PressEnabled
    \/ PressType
    \/ PressMode
    \/ BlurField
    \/ SavingsContinue

SpecSavings == InitSavings /\ [][NextSavings]_vars

\* C24 as claimed: every persisted SavingsGoal that is enabled has, in
\* percent mode, a value in [0, 50] and, in fixed-amount mode, a value >= 0.
C24_PersistedSavingsInRange ==
    (~IsNone(savRow) /\ Get(savRow).enabled
     /\ ~IsNone(Get(savRow).savingsValue)) =>
        LET value == Get(Get(savRow).savingsValue)
        IN  /\ Get(savRow).savingsMode = Some("percent")
                 => (0 <= value /\ value <= 50)
            /\ Get(savRow).savingsMode = Some("fixedAmount") => value >= 0

-----------------------------------------------------------------------------
(* SpecHook: hooks/useBudget.ts, the one useBudget instance behind         *)
(* BudgetContext, with the loadBudget calls of the mount effect, of the    *)
(* dashboard's focus effect and of the edit screens.  Each await of        *)
(* loadBudget is a step; the steps of different calls interleave in any    *)
(* order, the code imposing none.                                          *)

MaxLoads == 3
Loads == 1..MaxLoads

\* calculateBudget on the stored data: the fixed expenses vary, the rest is
\* the first worked scenario's.
HookBudget(fixedExpenses) ==
    Run([ScenarioA EXCEPT !.fixedExpenses = Some(fixedExpenses)])

IdleLoad == [pc |-> "idle", data |-> None]
InFlight(l) == hookLoads[l].pc \in {"reading", "calculating"}

\* useState(null), useState(true), useState(null) (lines 13-15).
InitHook ==
    /\ hookStore \in {ExpensesA, ExpensesB}
    /\ hookLoads = [l \in Loads |-> IdleLoad]
    /\ hook = [budget |-> None, loading |-> TRUE, error |-> None]
    /\ EarlierIdle /\ StoreIdle /\ SavIdle /\ LaunchIdle /\ InitDbIdle

\* The next loadBudget call to start.
NextLoad == CHOOSE l \in Loads : hookLoads[l].pc = "idle" /\
                                  \A k \in Loads : k < l => hookLoads[k].pc # "idle"

\* loadBudget up to its first await (lines 18-30): setLoading(true),
\* setError(null), the six getters called.
BeginLoad ==
    /\ hookLoads' = [hookLoads EXCEPT ![NextLoad].pc = "reading"]
    /\ hook' = [hook EXCEPT !.loading = TRUE, !.error = None]

\* The mount effect (lines 51-53) and the dashboard's focus effect
\* ((tabs)/index.tsx, lines 13-18): refresh().
Refresh ==
    /\ \E l \in Loads : hookLoads[l].pc = "idle"
    /\ BeginLoad
    /\ UNCHANGED hookStore
    /\ UNCHANGED <<earlierVars, storeVars, savVars, launchVars, initDbVars>>

\* A toggle in edit mode (part_001, lines 397-405):
\* saveFixedExpenses(updated).then(refresh).
ToggleThenRefresh ==
    /\ \E l \in Loads : hookLoads[l].pc = "idle"
    /\ hookStore' = IF hookStore = ExpensesA THEN ExpensesB ELSE ExpensesA
    /\ BeginLoad
    /\ UNCHANGED <<earlierVars, storeVars, savVars, launchVars, initDbVars>>

\* The Promise.all of the getters resolves (lines 22-30) and
\* calculateBudget is called and awaited (lines 32-40).
LoadRead(l) ==
    /\ hookLoads[l].pc = "reading"
    /\ hookLoads' = [hookLoads EXCEPT ![l] = [pc |-> "calculating",
                                              data |-> Some(hookStore)]]
    /\ UNCHANGED <<hookStore, hook>>
    /\ UNCHANGED <<earlierVars, storeVars, savVars, launchVars, initDbVars>>

\* A getter rejects: catch and finally (lines 43-48).
LoadFail(l) ==
    /\ hookLoads[l].pc = "reading"
    /\ hookLoads' = [hookLoads EXCEPT ![l].pc = "failed"]
    /\ hook' = [hook EXCEPT !.error = Some("Failed to load budget"),
                            !.loading = FALSE]
    /\ UNCHANGED hookStore
    /\ UNCHANGED <<earlierVars, storeVars, savVars, launchVars, initDbVars>>

\* The await of calculateBudget resumes: setBudget(calculation), then
\* finally setLoading(false) (lines 42, 46-48).
LoadFinish(l) ==
    /\ hookLoads[l].pc = "calculating"
    /\ hookLoads' = [hookLoads EXCEPT ![l].pc = "done"]
    /\ hook' = [hook EXCEPT !.budget = Some(HookBudget(Get(hookLoads[l].data))),
                            !.loading = FALSE]
    /\ UNCHANGED hookStore
    /\ UNCHANGED <<earlierVars, storeVars, savVars, launchVars, initDbVars>>

NextHook ==
    \/ Refresh
    \/ ToggleThenRefresh
    \/ \E l \in Loads : LoadRead(l)
    \/ \E l \in Loads : LoadFail(l)
    \/ \E l \in Loads : LoadFinish(l)

SpecHook == InitHook /\ [][NextHook]_vars

\* C26 as claimed: once every loadBudget call that started has completed
\* (none of them failing), the context's budget is calculateBudget of the
\* data finally stored.
C26_BudgetOfStoredData ==
    (/\ \E l \in Loads : hookLoads[l].pc = "done"
     /\ \A l \in Loads : hookLoads[l].pc \in {"idle", "done"})
        => hook.budget = Some(HookBudget(hookStore))

\* C28 as claimed: loading is true whenever a loadBudget call is in flight.
C28_LoadingWhileInFlight ==
    (\E l \in Loads : InFlight(l)) => hook.loading

-----------------------------------------------------------------------------
(* SpecLaunch: the launches of the app (Index.checkOnboarding), the         *)
(* onboarding screens and the two handlers that write the                  *)
(* onboarding-completed flag.                                              *)

MaxLaunches == 4

\* The onboarding screens in the order their Continue buttons push them.
OnboardingRoutes ==
    <<"/onboarding/welcome", "/onboarding/income", "/onboarding/fixed",
      "/onboarding/subscriptions", "/onboarding/flexible",
      "/onboarding/savings", "/onboarding/debt", "/onboarding/summary">>

\* getOnboardingStatus: `result?.completed === 1` on the first row, if any.
getOnboardingStatus(row) == ~IsNone(row) /\ Get(row) = 1

\* setOnboardingCompleted: INSERT OR REPLACE of the row with id 1.
setOnboardingCompleted(completed) == Some(IF completed THEN 1 ELSE 0)

\* A checkOnboarding that routes to the welcome screen whatever it read.
routeOfWelcome(completed) == "/onboarding/welcome"

\* checkOnboarding, lines 124-128 of part_000.
routeOf(completed) ==
    IF completed THEN "/(tabs)" ELSE "/onboarding/welcome"

\* A fresh install at its first launch: Index is mounted and its effect has
\* called checkOnboarding.
InitLaunch ==
    /\ onbRow = None
    /\ navRoute = "/"
    /\ launchCheck = [pc |-> "initDatabase", failed |-> FALSE]
    /\ navHandler = "none"
    /\ launches = 1
    /\ EarlierIdle /\ StoreIdle /\ SavIdle /\ HookIdle /\ InitDbIdle

\* The app is closed, whatever it was doing, and launched again.
Relaunch ==
    /\ launches < MaxLaunches
    /\ launches' = launches + 1
    /\ navRoute' = "/"
    /\ launchCheck' = [pc |-> "initDatabase", failed |-> FALSE]
    /\ navHandler' = "none"
    /\ UNCHANGED onbRow
    /\ UNCHANGED <<earlierVars, storeVars, savVars, hookVars, initDbVars>>

\* checkOnboarding: `await initDatabase()` resolves, or rejects and the
\* catch block routes to the welcome screen.
CheckInitDatabase ==
    /\ launchCheck.pc = "initDatabase"
    /\ \E rejected \in BOOLEAN :
         IF rejected
         THEN /\ launchCheck' = [pc |-> "done", failed |-> TRUE]
              /\ navRoute' = "/onboarding/welcome"
         ELSE /\ launchCheck' = [pc |-> "getOnboardingStatus", failed |-> FALSE]
              /\ UNCHANGED navRoute
    /\ UNCHANGED <<onbRow, navHandler, launches>>
    /\ UNCHANGED <<earlierVars, storeVars, savVars, hookVars, initDbVars>>

\* checkOnboarding: `await getOnboardingStatus()` resolves and the route is
\* replaced, or it rejects and the catch block routes to the welcome screen.
CheckOnboardingStatus ==
    /\ launchCheck.pc = "getOnboardingStatus"
    /\ \E rejected \in BOOLEAN :
         IF rejected
         THEN /\ launchCheck' = [pc |-> "done", failed |-> TRUE]
              /\ navRoute' = "/onboarding/welcome"
         ELSE /\ launchCheck' = [pc |-> "done", failed |-> FALSE]
              /\ navRoute' = routeOf(getOnboardingStatus(onbRow))
    /\ UNCHANGED <<onbRow, navHandler, launches>>
    /\ UNCHANGED <<earlierVars, storeVars, savVars, hookVars, initDbVars>>

\* The position of the route among the onboarding screens, 0 if it is none.
OnboardingStep ==
    IF \E i \in 1..Len(OnboardingRoutes) : OnboardingRoutes[i] = navRoute
    THEN CHOOSE i \in 1..Len(OnboardingRoutes) : OnboardingRoutes[i] = navRoute
    ELSE 0

\* Get Started and the Continue buttons: router.push of the next screen.
PushNext ==
    /\ navHandler = "none"
    /\ OnboardingStep \in 1..(Len(OnboardingRoutes) - 1)
    /\ navRoute' = OnboardingRoutes[OnboardingStep + 1]
    /\ UNCHANGED <<onbRow, launchCheck, navHandler, launches>>
    /\ UNCHANGED <<earlierVars, storeVars, savVars, hookVars, initDbVars>>

\* router.back() on an onboarding screen reached by a push.
GoBack ==
    /\ navHandler = "none"
    /\ OnboardingStep \in 2..Len(OnboardingRoutes)
    /\ navRoute' = OnboardingRoutes[OnboardingStep - 1]
    /\ UNCHANGED <<onbRow, launchCheck, navHandler, launches>>
    /\ UNCHANGED <<earlierVars, storeVars, savVars, hookVars, initDbVars>>

\* welcome.tsx, handleSkip ("I'll set up later") up to the end of its
\* second await: the flag is written.
HandleSkip ==
    /\ navHandler = "none"
    /\ navRoute = "/onboarding/welcome"
    /\ onbRow' = setOnboardingCompleted(TRUE)
    /\ navHandler' = "handleSkip"
    /\ UNCHANGED <<navRoute, launchCheck, launches>>
    /\ UNCHANGED <<earlierVars, storeVars, savVars, hookVars, initDbVars>>

\* SummaryScreen.handleFinish ("Finish Setup") up to the end of its await:
\* the flag is written.
HandleFinish ==
    /\ navHandler = "none"
    /\ navRoute = "/onboarding/summary"
    /\ onbRow' = setOnboardingCompleted(TRUE)
    /\ navHandler' = "handleFinish"
    /\ UNCHANGED <<navRoute, launchCheck, launches>>
    /\ UNCHANGED <<earlierVars, storeVars, savVars, hookVars, initDbVars>>

\* The last line of handleSkip and of handleFinish:
\* router.replace('/(tabs)').
ReplaceWithTabs ==
    /\ navHandler # "none"
    /\ navRoute' = "/(tabs)"
    /\ navHandler' = "none"
    /\ UNCHANGED <<onbRow, launchCheck, launches>>
    /\ UNCHANGED <<earlierVars, storeVars, savVars, hookVars, initDbVars>>

\* Settings, "Review summary": router.push of the summary from settings,
\* which has no Finish Setup button; Back returns to the tabs.
ReviewSummary ==
    /\ navHandler = "none"
    /\ navRoute \in {"/(tabs)", "/onboarding/summary?from=settings"}
    /\ navRoute' = IF navRoute = "/(tabs)"
                   THEN "/onboarding/summary?from=settings" ELSE "/(tabs)"
    /\ UNCHANGED <<onbRow, launchCheck, navHandler, launches>>
    /\ UNCHANGED <<earlierVars, storeVars, savVars, hookVars, initDbVars>>

NextLaunch ==
    \/ Relaunch
    \/ CheckInitDatabase
    \/ CheckOnboardingStatus
    \/ PushNext
    \/ GoBack
    \/ HandleSkip
    \/ HandleFinish
    \/ ReplaceWithTabs
    \/ ReviewSummary

SpecLaunch == InitLaunch /\ [][NextLaunch]_vars

\* C29: the stored flag changes only in handleFinish and handleSkip, and
\* then to completed; once completed it stays completed; and every launch's
\* checkOnboarding routes to the dashboard exactly when reading the flag
\* succeeds and the stored flag is completed, and to the welcome screen in
\* every other case.
C29_FlagMonotonicAndRoutes ==
    /\ [][onbRow' # onbRow =>
            /\ getOnboardingStatus(onbRow')
            /\ HandleSkip \/ HandleFinish]_vars
    /\ [][getOnboardingStatus(onbRow) => getOnboardingStatus(onbRow')]_vars
    /\ [][(launchCheck.pc # "done" /\ launchCheck'.pc = "done") =>
            /\ navRoute' \in {"/(tabs)", "/onboarding/welcome"}
            /\ navRoute' = "/(tabs)" <=>
                 (~launchCheck'.failed /\ getOnboardingStatus(onbRow))]_vars

\* A later launch has read the completed flag and shows the dashboard.
C29_Witness ==
    /\ launches >= 2
    /\ launchCheck = [pc |-> "done", failed |-> FALSE]
    /\ getOnboardingStatus(onbRow)
    /\ navRoute = "/(tabs)"
    /\ navHandler = "none"

-----------------------------------------------------------------------------
(* SpecInitDb: services/database.ts, initDatabase called by several        *)
(* callers of one process (the getters of loadBudget's Promise.all, the    *)
(* launch check).  Each await of initDatabase is a step.                   *)

MaxCallers == 3
Callers == 1..MaxCallers

\* The statements initDatabase awaits after the open: the CREATE TABLE
\* script and the three ALTER TABLE statements, each of the latter in a
\* try block whose catch ignores the error.
InitSteps == <<"createTables", "alter1", "alter2", "alter3">>

IdleCaller == [pc |-> "idle", step |-> 0, handle |-> None, returned |-> None]

\* The process has started: db is null and nobody has called initDatabase.
InitInitDb ==
    /\ db = None
    /\ dbOpens = 0
    /\ dbCallers = [c \in Callers |-> IdleCaller]
    /\ EarlierIdle /\ StoreIdle /\ SavIdle /\ HookIdle /\ LaunchIdle

\* A call of initDatabase up to its first await (lines 148-151):
\* `if (db) return db;`, else SQLite.openDatabaseAsync is called, which will
\* resolve to a new handle.
CallInitDatabase(c) ==
    /\ dbCallers[c].pc = "idle"
    /\ IF ~IsNone(db)
       THEN /\ dbCallers' = [dbCallers EXCEPT ![c].pc = "done",
                                              ![c].returned = db]
            /\ UNCHANGED dbOpens
       ELSE /\ dbOpens' = dbOpens + 1
            /\ dbCallers' = [dbCallers EXCEPT ![c].pc = "opening",
                                              ![c].handle = Some(dbOpens + 1)]
    /\ UNCHANGED db
    /\ UNCHANGED <<earlierVars, storeVars, savVars, hookVars, launchVars>>

\* openDatabaseAsync resolves: `db = await ...` assigns the caller's handle,
\* and db.execAsync(CREATE TABLE ...) is called.
OpenResolves(c) ==
    /\ dbCallers[c].pc = "opening"
    /\ db' = dbCallers[c].handle
    /\ dbCallers' = [dbCallers EXCEPT ![c].pc = "awaiting", ![c].step = 1]
    /\ UNCHANGED dbOpens
    /\ UNCHANGED <<earlierVars, storeVars, savVars, hookVars, launchVars>>

\* An awaited execAsync settles (a rejected ALTER TABLE is caught): the next
\* statement is run, or, after the last, `return db` returns the module
\* variable as it is then.
ExecSettles(c) ==
    /\ dbCallers[c].pc = "awaiting"
    /\ dbCallers' =
         IF dbCallers[c].step < Len(InitSteps)
         THEN [dbCallers EXCEPT ![c].step = @ + 1]
         ELSE [dbCallers EXCEPT ![c].pc = "done", ![c].returned = db]
    /\ UNCHANGED <<db, dbOpens>>
    /\ UNCHANGED <<earlierVars, storeVars, savVars, hookVars, launchVars>>

NextInitDb ==
    \/ \E c \in Callers : CallInitDatabase(c)
    \/ \E c \in Callers : OpenResolves(c)
    \/ \E c \in Callers : ExecSettles(c)

SpecInitDb == InitInitDb /\ [][NextInitDb]_vars

\* C30 as claimed: openDatabaseAsync is called at most once per process,
\* however many callers there are, and every caller receives the same
\* handle.
C30_OpenedOnceSameHandle ==
    /\ dbOpens <= 1
    /\ \A c, d \in Callers :
          (dbCallers[c].pc = "done" /\ dbCallers[d].pc = "done")
              => dbCallers[c].returned = dbCallers[d].returned

-----------------------------------------------------------------------------
(* The summary screen's own arithmetic (SummaryScreen.loadSummary), on the *)
(* data of a session's call.                                               *)

\* loadSummary's `monthly`, in units: netPayAmount * 2.17 for a biweekly
\* income, netPayAmount for any other frequency, plus the whole irregular
\* average when it is enabled and not 0.
summaryMonthly(incomeData) ==
    (IF incomeData.payFrequency = "biweekly"
     THEN incomeData.netPayAmount * ((217 * UnitsPerCent) \div 100)
     ELSE incomeData.netPayAmount * UnitsPerCent)
    + (IF /\ incomeData.irregularIncomeEnabled
          /\ ~IsNone(incomeData.irregularMonthlyAvg)
          /\ Get(incomeData.irregularMonthlyAvg) # 0
       THEN Get(incomeData.irregularMonthlyAvg) * UnitsPerCent
       ELSE 0)

\* loadSummary on what the getters return for the stored data (an empty
\* table reads as an empty list); now is `today`, new Date() at midnight.  The
\* fields are the component's state as the screen prints it with
\* toFixed(2), in cents.  (monthly * value) / 100 is exact for amounts in
\* whole multiples of 25 cents.
loadSummary(incomeData, fixed, subs, flexible, savings, debts, now, zone) ==
    LET monthly == summaryMonthly(incomeData)
        fixedTotal == fixedMonthlyOf(fixed)
        subsTotal == subsMonthlyOf(subs)
        flexibleTotal == flexibleCapsMonthlyOf(flexible)
        savingsTotal ==
            IF /\ ~IsNone(savings)
               /\ Get(savings).enabled
               /\ ~IsNone(Get(savings).savingsValue)
               /\ Get(Get(savings).savingsValue) # 0
            THEN IF Get(savings).savingsMode = Some("percent")
                 THEN (monthly \div 100) * Get(Get(savings).savingsValue)
                 ELSE Get(Get(savings).savingsValue) * UnitsPerCent
            ELSE 0
        list == IF IsNone(debts) THEN <<>> ELSE Get(debts)
        debtTotal ==
            UnitsPerCent *
            SumSeq([i \in 1..Len(list) |-> list[i].minPaymentMonthly], 1)
        totalExpenses ==
            fixedTotal + subsTotal + flexibleTotal + savingsTotal + debtTotal
        nextPay == getNextPayDateFromIncome(incomeData, now)
        daysUntilPay == daysUntilPaydayOf(nextPay, now, zone)
        essentialTotal == fixedTotal + subsTotal + savingsTotal + debtTotal
        availableForFlexible == monthly - essentialTotal
    IN  [monthlyIncome |-> ToFixed2(monthly),
         totalFixed |-> ToFixed2(fixedTotal),
         totalSubscriptions |-> ToFixed2(subsTotal),
         totalFlexible |-> ToFixed2(flexibleTotal),
         totalSavings |-> ToFixed2(savingsTotal),
         totalDebt |-> ToFixed2(debtTotal),
         isOverBudget |-> totalExpenses > monthly,
         shortfall |-> IF totalExpenses > monthly
                       THEN ToFixed2(totalExpenses - monthly) ELSE 0,
         nextPayDate |-> nextPay,
         safeToSpendToday |->
            IF availableForFlexible > 0
            THEN RoundDailyTimes(availableForFlexible, daysUntilPay) ELSE 0,
         safeToSpendPerDay |->
            IF availableForFlexible > 0
            THEN RoundDailyTimes(availableForFlexible, 1) ELSE 0]

\* The summary of the data the session's first call was made on.
CallSummary ==
    loadSummary(Get(callInput.income), callInput.fixedExpenses,
                callInput.subscriptions, callInput.flexibleSpending,
                callInput.savings, callInput.debts, callInput.now,
                callInput.zone)

\* C27 as claimed: on the same stored data the summary's monthly income is
\* calculateBudget's incomeMonthly, its over-budget flag is raised exactly
\* when the result is not feasible, and its per-day safe-to-spend is
\* safeToSpendToday, to the cent.
C27_SummaryAgreesWithEngine ==
    callResult.kind = "ok" =>
        /\ CallSummary.monthlyIncome = callResult.incomeMonthly
        /\ CallSummary.isOverBudget <=> ~callResult.feasible
        /\ CallSummary.safeToSpendPerDay = callResult.safeToSpendToday

=============================================================================
